---- MODULE Spec2Model ----
(***************************************************************************)
(* Document ingestion pipeline of rag_store: the processor registry        *)
(* (document_processor.py), the PDF, Text, Word and MHT processors and     *)
(* the directory driver (store_embeddings.py); and the serving side of     *)
(* rag_fetch: the connection manager, the connection tracking middleware   *)
(* and the vectorstore cache.                                              *)
(*                                                                         *)
(* The specifications of this module share its variables:                  *)
(*   SpecRegistry - ProcessorRegistry under arbitrary register / lookup /  *)
(*                  process calls;                                         *)
(*   SpecProc     - one process_document call of one format processor,     *)
(*                  stepped through its extraction and fallback chain;     *)
(*   SpecIngest   - ProcessorRegistry.process_document on a registry of    *)
(*                  the format processors, followed into the processor;    *)
(*   SpecDir      - one process_documents_from_directory call;             *)
(*   SpecSplit    - CharacterTextSplitter.split_text as the Text           *)
(*                  processor configures it, on one text;                  *)
(*   SpecCm       - ConnectionManager under arbitrary calls and a clock;   *)
(*   SpecMw       - concurrent requests through                            *)
(*                  connection_tracking_middleware on one manager;         *)
(*   SpecCache    - get_cached_vectorstore calls and a clock.              *)
(***************************************************************************)
EXTENDS Integers, Sequences, FiniteSets, TLC

\* ------------------------------------------------------------------------
\* Bounds
\* ------------------------------------------------------------------------
\* longest sequence of register_processor calls explored
MaxRegs == 3
\* longest chunk list a delegated processor returns to the registry
MaxDelegChunks == 1

\* ------------------------------------------------------------------------
\* Strings: a string is a sequence of one-character strings, so that
\* str.lower() is computed character by character.
\* ------------------------------------------------------------------------
LowerChar(c) ==
    CASE c = "A" -> "a"
      [] c = "B" -> "b"
      [] c = "C" -> "c"
      [] c = "D" -> "d"
      [] c = "F" -> "f"
      [] c = "P" -> "p"
      [] c = "T" -> "t"
      [] c = "W" -> "w"
      [] c = "X" -> "x"
      [] OTHER -> c

Lower(s) == [i \in DOMAIN s |-> LowerChar(s[i])]

\* ------------------------------------------------------------------------
\* ProcessorRegistry
\* ------------------------------------------------------------------------
VARIABLES
    processors,      \* ProcessorRegistry._processors: class name -> instance
    extension_map,   \* ProcessorRegistry._extension_map: extension -> class name
    regLog,          \* history: the instances passed to register_processor, in order
    prevGet,         \* history: the get_processor_for_file call made just before the last one, if any
    lastOp           \* history: the last registry call and its outcome

regVars == <<processors, extension_map, regLog, prevGet, lastOp>>

VARIABLES
    pc,            \* position of the call: idle, pdf, pdf_pages, text, text_fallback, word, mht, mht_manual, mht_split, returned, raised
    proc,          \* the processor whose process_document is called
    file,          \* the file: does the path exist, and its suffix
    ocrAvailable,  \* pdf_processor.OCR_AVAILABLE, fixed at import
    events,        \* processing events emitted through logging_config, in order
    result,        \* the returned chunk list
    error,         \* the raised exception
    handle,        \* the fitz document: times opened, times closed
    pageCount,     \* doc.page_count
    pageNum,       \* pages processed so far
    pages,         \* PDF page units collected so far
    lastPage,      \* history: what happened on the page processed last
    attempts,      \* history: encodings handed to TextLoader, in order, and what each load did
    elements,      \* MHT elements / Word raw documents before splitting
    calls          \* history: the extraction steps invoked, in order, each with the message of the exception it raised

procVars == <<pc, proc, file, ocrAvailable, events, result, error, handle,
              pageCount, pageNum, pages, lastPage, attempts, elements, calls>>

VARIABLES
    dirFiles,       \* the children of the directory, in the order iterdir() yields them
    dirIdx,         \* children the for loop has visited
    all_documents,  \* process_documents_from_directory: the list being built
    dirLog          \* history: what the loop did with each visited child

dirVars == <<dirFiles, dirIdx, all_documents, dirLog>>

VARIABLES
    splitIn,        \* CharacterTextSplitter: the text (its paragraphs), chunk_size, chunk_overlap
    splitOut,       \* the chunks split_text returned
    splitDone       \* has split_text been applied

splitVars == <<splitIn, splitOut, splitDone>>

VARIABLES
    connections,         \* ConnectionManager.connections: id -> ConnectionInfo
    metrics,             \* ConnectionManager.metrics
    max_connections,     \* ConnectionManager.max_connections
    connection_timeout,  \* ConnectionManager.connection_timeout
    now,                 \* time.time()
    nextId,              \* the next value uuid.uuid4() yields
    cmLast,              \* history: the last ConnectionManager call, the state before it, its outcome
    createdOk,           \* history: create_connection calls that returned
    removedByTimeout     \* history: entries removed by _cleanup_timed_out_connections

cmVars == <<connections, metrics, max_connections, connection_timeout, now, nextId, cmLast,
            createdOk, removedByTimeout>>

VARIABLES
    reqs            \* the requests inside connection_tracking_middleware: position and history of each

VARIABLES
    vectorstore_cache,  \* search_similarity._vectorstore_cache: key -> vectorstore, timestamp
    loads,              \* history: the load_vectorstore calls, in order; a vectorstore is its index here
    cacheLast           \* history: the last get_cached_vectorstore call and its outcome

cacheVars == <<vectorstore_cache, loads, cacheLast>>

fetchVars == <<splitVars, cmVars, reqs, cacheVars>>

\* Extensions and file suffixes used with the registry
ExtA  == <<".", "a">>
ExtB  == <<".", "b">>
ExtC  == <<".", "c">>
ExtUA == <<".", "A">>
ExtUC == <<".", "C">>
ExtX  == <<".", "x">>
NoSuffix == <<>>

RegSuffixes == {ExtA, ExtUA, ExtB, ExtUC, ExtX}

\* DocumentProcessor instances handed to the registry.  An instance has an
\* identity, a class name (processor.__class__.__name__) and its
\* supported_extensions attribute, which is per instance.
NoneProc == [id |-> 0, cls |-> "None", exts |-> {}]

Pool ==
    { [id |-> 1, cls |-> "AProcessor", exts |-> {ExtA, ExtB}],
      [id |-> 2, cls |-> "BProcessor", exts |-> {ExtB}],
      [id |-> 3, cls |-> "AProcessor", exts |-> {ExtA, ExtB}],
      [id |-> 4, cls |-> "AProcessor", exts |-> {ExtC}],
      [id |-> 5, cls |-> "CProcessor", exts |-> {ExtUC}] }

NoOp == [op |-> "none", suffix |-> NoSuffix, ret |-> NoneProc, raised |-> "none",
         invoked |-> <<>>, chunks |-> <<>>]

\* function update that also extends the domain (dict[key] = value)
DictSet(d, k, v) == [x \in (DOMAIN d) \cup {k} |-> IF x = k THEN v ELSE d[x]]

\* the for loop of register_processor over processor.supported_extensions
MapExtensions(m, p) ==
    LET keys == {Lower(e) : e \in p.exts}
    IN  [x \in (DOMAIN m) \cup keys |-> IF x \in keys THEN p.cls ELSE m[x]]

register_processor(p) ==
    /\ Len(regLog) < MaxRegs
    /\ processors' = DictSet(processors, p.cls, p)
    /\ extension_map' = MapExtensions(extension_map, p)
    /\ regLog' = Append(regLog, p)
    /\ prevGet' = NoOp
    /\ lastOp' = [NoOp EXCEPT !.op = "register"]
    /\ UNCHANGED <<procVars, dirVars, fetchVars>>

\* get_processor_for_file, as a function of the registry state
\* (variant: the suffix looked up as written)
GetProcessorNoLower(procs, emap, suffix) ==
    IF suffix \in DOMAIN emap THEN procs[emap[suffix]] ELSE NoneProc

GetProcessorForFile(procs, emap, suffix) ==
    LET extension == Lower(suffix)
    IN  IF extension \in DOMAIN emap
        THEN (IF emap[extension] \in DOMAIN procs THEN procs[emap[extension]] ELSE NoneProc)
        ELSE NoneProc

get_processor_for_file(suffix) ==
    LET r == GetProcessorForFile(processors, extension_map, suffix)
    IN  /\ prevGet' = (IF lastOp.op = "get" THEN lastOp ELSE NoOp)
        /\ lastOp' = [NoOp EXCEPT !.op = "get", !.suffix = suffix, !.ret = r]
        /\ UNCHANGED <<processors, extension_map, regLog, procVars, dirVars, fetchVars>>

\* the chunk list a delegated processor returns
DelegChunks(p, n) == [i \in 1..n |-> [by |-> p.id, idx |-> i]]

\* ProcessorRegistry.process_document: lookup, then fail or delegate
\* (variant: an empty list instead of the ValueError)
ProcessOutcomeSilent(procs, emap, suffix, fails, n) ==
    LET processor == GetProcessorForFile(procs, emap, suffix)
    IN  IF processor = NoneProc
        THEN [NoOp EXCEPT !.op = "process", !.suffix = suffix]
        ELSE IF fails
        THEN [NoOp EXCEPT !.op = "process", !.suffix = suffix, !.ret = processor,
                          !.raised = "processor_error", !.invoked = <<processor.id>>]
        ELSE [NoOp EXCEPT !.op = "process", !.suffix = suffix, !.ret = processor,
                          !.invoked = <<processor.id>>,
                          !.chunks = DelegChunks(processor, n)]

ProcessOutcome(procs, emap, suffix, fails, n) ==
    LET processor == GetProcessorForFile(procs, emap, suffix)
    IN  IF processor = NoneProc
        THEN [NoOp EXCEPT !.op = "process", !.suffix = suffix,
                          !.raised = "ValueError: No processor found"]
        ELSE IF fails
        THEN [NoOp EXCEPT !.op = "process", !.suffix = suffix, !.ret = processor,
                          !.raised = "processor_error", !.invoked = <<processor.id>>]
        ELSE [NoOp EXCEPT !.op = "process", !.suffix = suffix, !.ret = processor,
                          !.invoked = <<processor.id>>,
                          !.chunks = DelegChunks(processor, n)]

registry_process_document(suffix, fails, n) ==
    /\ lastOp' = ProcessOutcome(processors, extension_map, suffix, fails, n)
    /\ prevGet' = NoOp
    /\ UNCHANGED <<processors, extension_map, regLog, procVars, dirVars, fetchVars>>


\* ------------------------------------------------------------------------
\* Format processors: one process_document call
\* ------------------------------------------------------------------------
\* most pages a PDF has
MaxPages == 2
\* most chunks the splitter cuts one unit (page, element, document) into
MaxPieces == 2
\* most documents TextLoader.load_and_split returns
MaxTextChunks == 2
\* most elements the primary MHT loader returns
MaxElements == 2

\* pdf_processor.py: a page needs this many stripped characters to skip OCR
\* variant: a threshold of 100
MinTextLenDoubled == 50 + 50

MinTextLen == 50

Processors == {"pdf", "text", "word", "mht"}

SufPdf   == <<".", "p", "d", "f">>
SufPDF   == <<".", "P", "D", "F">>
SufTxt   == <<".", "t", "x", "t">>
SufMd    == <<".", "m", "d">>
SufText  == <<".", "t", "e", "x", "t">>
SufDocx  == <<".", "d", "o", "c", "x">>
SufDoc   == <<".", "d", "o", "c">>
SufMht   == <<".", "m", "h", "t">>
SufMhtml == <<".", "m", "h", "t", "m", "l">>

ProcSuffixes == {SufPdf, SufPDF, SufTxt, SufMd, SufDocx, SufDoc, SufMht, SufMhtml}

\* self.supported_extensions of the four processors
SupportedExtensions(p) ==
    CASE p = "pdf"  -> {SufPdf}
      [] p = "text" -> {SufTxt, SufMd, SufText}
      [] p = "word" -> {SufDocx}
      [] p = "mht"  -> {SufMht, SufMhtml}

is_supported_file(p, suffix) == Lower(suffix) \in SupportedExtensions(p)

\* Exceptions: type, the fixed part of the message, the message of the
\* wrapped exception ({e!s}), and the encoding names the message contains
NoError == [type |-> "none", msg |-> "none", cause |-> "none", names |-> {}, note |-> "none"]
Err(type, msg, cause) ==
    [type |-> type, msg |-> msg, cause |-> cause, names |-> {}, note |-> "none"]

\* Events of logging_config
EvStart == [kind |-> "start", status |-> "none", n |-> 0]
EvComplete(status, n) == [kind |-> "complete", status |-> status, n |-> n]
EvError(tag) == [kind |-> "error", status |-> tag, n |-> 0]

\* One extraction step (a loader, a parser, a page read, an OCR pass) that was
\* invoked, with str(e) of the exception it raised, "none" when it returned
Call(step, err) == [step |-> step, err |-> err, ret |-> "none"]
\* a step that returned, with what it found
CallRet(step, ret) == [step |-> step, err |-> "none", ret |-> ret]

\* Text is kept as its origin, len(text) and len(text.strip())
Txt(src, len, slen) == [src |-> src, len |-> len, slen |-> slen]
NoText == Txt("none", 0, 0)
Strip(t) == [t EXCEPT !.len = t.slen]

NoPage == [page |-> 0, direct |-> NoText, blocks |-> NoText, ocrCalled |-> FALSE,
           ocr |-> NoText, kept |-> NoText, method |-> "none", emitted |-> FALSE]

\* leave process_document by raising e / by returning r
Raise(e) == pc' = "raised" /\ error' = e /\ result' = << >>
Return(r) == pc' = "returned" /\ result' = r /\ error' = NoError

\* process_document of every processor: validate_file, then the internal
\* method up to log_document_processing_start
\* (variant: validate_file without the exists() test)
process_document_begin_no_exists ==
    /\ pc = "idle"
    /\ IF ~ is_supported_file(proc, file.suffix)
       THEN Raise(Err("ValueError", "Unsupported file type", "none")) /\ UNCHANGED events
       ELSE /\ pc' = proc
            /\ events' = Append(events, EvStart)
            /\ UNCHANGED <<result, error>>
    /\ UNCHANGED <<regVars, dirVars, fetchVars, proc, file, ocrAvailable, handle, pageCount, pageNum, pages,
                   lastPage, attempts, elements, calls>>

process_document_begin ==
    /\ pc = "idle"
    /\ IF ~ file.exists
       THEN Raise(Err("FileNotFoundError", "File not found", "none")) /\ UNCHANGED events
       ELSE IF ~ is_supported_file(proc, file.suffix)
       THEN Raise(Err("ValueError", "Unsupported file type", "none")) /\ UNCHANGED events
       ELSE /\ pc' = proc
            /\ events' = Append(events, EvStart)
            /\ UNCHANGED <<result, error>>
    /\ UNCHANGED <<regVars, dirVars, fetchVars, proc, file, ocrAvailable, handle, pageCount, pageNum, pages,
                   lastPage, attempts, elements, calls>>

\* ------------------------------------------------------------------------
\* ProcessorRegistry.process_document on a registry of the format processors
\* ------------------------------------------------------------------------
SufXyz == <<".", "x", "y", "z">>

\* the processor instances as the registry sees them
PDFProcessor  == [id |-> 1, cls |-> "PDFProcessor",  exts |-> SupportedExtensions("pdf")]
TextProcessor == [id |-> 2, cls |-> "TextProcessor", exts |-> SupportedExtensions("text")]
WordProcessor == [id |-> 3, cls |-> "WordProcessor", exts |-> SupportedExtensions("word")]
MHTProcessor  == [id |-> 4, cls |-> "MHTProcessor",  exts |-> SupportedExtensions("mht")]

ProcOf(cls) ==
    CASE cls = "PDFProcessor"  -> "pdf"
      [] cls = "TextProcessor" -> "text"
      [] cls = "WordProcessor" -> "word"
      [] cls = "MHTProcessor"  -> "mht"

\* ProcessorRegistry() and register_processor on a registry value
EmptyRegistry == [processors |-> << >>, extension_map |-> << >>]
RegisterInto(reg, p) ==
    [processors |-> DictSet(reg.processors, p.cls, p),
     extension_map |-> MapExtensions(reg.extension_map, p)]

\* store_embeddings.get_document_processor_registry
get_document_processor_registry ==
    RegisterInto(RegisterInto(RegisterInto(EmptyRegistry, PDFProcessor), TextProcessor),
                 WordProcessor)

\* a registry a caller built with the MHT processor registered as well
FullRegistry == RegisterInto(get_document_processor_registry, MHTProcessor)

\* ProcessorRegistry.process_document: the lookup, the ValueError, or the call
\* of processor.process_document, whose result or exception it passes on
registry_dispatch ==
    /\ pc = "registry"
    /\ LET processor == GetProcessorForFile(processors, extension_map, file.suffix)
       IN  IF processor = NoneProc
           THEN /\ Raise(Err("ValueError", "No processor found for file type", "none"))
                /\ UNCHANGED proc
           ELSE /\ proc' = ProcOf(processor.cls)
                /\ pc' = "idle"
                /\ UNCHANGED <<result, error>>
    /\ UNCHANGED <<regVars, dirVars, fetchVars, file, ocrAvailable, events, handle, pageCount, pageNum,
                   pages, lastPage, attempts, elements, calls>>

\* f"chunk_{i}"
ChunkId(i) == <<"chunk_", i>>
NoId == << >>

\* a chunk as the splitter hands it over: metadata copied from its unit
Piece(u, i, k) ==
    [unit |-> i, piece |-> k, method |-> u.method, src |-> u.text.src,
     chunk_id |-> NoId, total_chunks |-> -1, encoding |-> "none", clen |-> 0]

\* len(page_content) of one of n pieces cut from a text of slen non-blank characters
PieceLen(slen, n) == IF slen \div n > 0 THEN slen \div n ELSE 1

\* the pieces the splitter cuts from unit i before it joins and strips them:
\* n pieces of a text that has content, one blank piece of a text that has none
Candidates(u, i, n) ==
    IF u.text.slen = 0
    THEN << Piece(u, i, 1) >>
    ELSE [k \in 1..n |-> [Piece(u, i, k) EXCEPT !.clen = PieceLen(u.text.slen, n)]]

\* the splitter appends a piece only when its stripped text is not ""
\* (variant: every piece appended)
DropEmptyKeepAll(pieces) == pieces

DropEmpty(pieces) == SelectSeq(pieces, LAMBDA p : p.clen > 0)

RECURSIVE SplitFrom(_, _, _)
SplitFrom(units, counts, i) ==
    IF i > Len(units) THEN << >>
    ELSE DropEmpty(Candidates(units[i], i, counts[i])) \o SplitFrom(units, counts, i + 1)

\* text_splitter.split_documents(units): counts[i] chunks from unit i, in order
split_documents(units, counts) == SplitFrom(units, counts, 1)


\* ------------------------------------------------------------------------
\* PDFProcessor._process_pdf_internal
\* ------------------------------------------------------------------------
DirectTexts == {Txt("direct", 0, 0), Txt("direct", 3, 0),
                Txt("direct", 49, 49), Txt("direct", 50, 50)}
BlockTexts  == {Txt("blocks", 0, 0), Txt("blocks", 2, 0),
                Txt("blocks", 8, 8), Txt("blocks", 55, 55)}
OcrTexts    == {Txt("ocr", 0, 0), Txt("ocr", 3, 0), Txt("ocr", 5, 5), Txt("ocr", 62, 60)}

\* the except clause: log_processing_error, then raise the wrapped exception
PdfExcept(cause) ==
    /\ events' = Append(events, EvError("pdf_processing_error"))
    /\ Raise(Err("Exception", "Error processing PDF", cause))

\* fitz.open, and the page_count == 0 exit
pdf_open ==
    /\ pc = "pdf"
    /\ \E fails \in BOOLEAN, n \in 0..MaxPages :
       /\ calls' = Append(calls, Call("fitz.open", IF fails THEN "fitz.open failed" ELSE "none"))
       /\ IF fails
          THEN PdfExcept("fitz.open failed") /\ UNCHANGED <<handle, pageCount>>
          ELSE IF n = 0
          THEN /\ handle' = [opened |-> handle.opened + 1, closed |-> handle.closed + 1]
               /\ events' = Append(events, EvComplete("success_empty", 0))
               /\ Return(<< >>)
               /\ pageCount' = 0
          ELSE /\ handle' = [handle EXCEPT !.opened = @ + 1]
               /\ pageCount' = n
               /\ pc' = "pdf_pages"
               /\ UNCHANGED <<events, result, error>>
    /\ UNCHANGED <<regVars, dirVars, fetchVars, proc, file, ocrAvailable, pageNum, pages, lastPage, attempts, elements>>

\* _perform_ocr_on_page: "" when OCR is unavailable or anything in it raises,
\* else the stripped Tesseract output
perform_ocr_on_page(avail, raw, fails) ==
    IF ~ avail THEN Txt("ocr", 0, 0)
    ELSE IF fails THEN Txt("ocr", 0, 0)
    ELSE Strip(raw)

\* is OCR attempted after the direct (and block) text t
NeedsOcr(t, avail) == (t.slen = 0 \/ t.slen < MinTextLen) /\ avail

\* does the OCR text replace the text extracted so far
\* (variant: the comparison reversed)
OcrWinsShorter(ocr, t) == ocr.len > 0 /\ ocr.slen < t.slen

OcrWins(ocr, t) == ocr.len > 0 /\ ocr.slen > t.slen

\* the body of the page loop for one page, without the exceptions
ExtractPage(num, direct, blocks, raw, ocrFails, avail) ==
    LET minimal == direct.slen = 0 \/ direct.slen < MinTextLen
        useBlocks == minimal /\ direct.slen = 0
        text1 == IF useBlocks THEN blocks ELSE direct
        method1 == IF useBlocks /\ blocks.slen > 0 THEN "pymupdf_blocks" ELSE "pymupdf_text"
        callOcr == minimal /\ NeedsOcr(text1, avail)
        ocr == IF callOcr THEN perform_ocr_on_page(avail, raw, ocrFails) ELSE NoText
        wins == callOcr /\ OcrWins(ocr, text1)
        text == IF wins THEN ocr ELSE text1
        method == IF wins THEN "tesseract_ocr" ELSE method1
    IN  [page |-> num, direct |-> direct,
         blocks |-> IF useBlocks THEN blocks ELSE NoText,
         ocrCalled |-> callOcr, ocr |-> ocr, kept |-> text, method |-> method,
         emitted |-> text.slen > 0]

\* (variant: every unit tagged with the first method tried)
PageUnitFirstMethod(r) == [page |-> r.page, method |-> "pymupdf_text", text |-> r.kept]

\* the Document appended for a page whose kept text is not blank
PageUnit(r) == [page |-> r.page, method |-> r.method, text |-> r.kept]

\* the steps one iteration of the page loop invokes, up to the one that raises
PageCalls(failAt, direct, callOcr, ocrFails) ==
    IF failAt = "get_text"
    THEN << Call("page.get_text", "page extraction failed") >>
    ELSE << Call("page.get_text", "none") >>
         \o (IF direct.slen # 0 THEN << >>
             ELSE IF failAt = "blocks"
             THEN << Call("page.get_text(blocks)", "page extraction failed") >>
             ELSE << Call("page.get_text(blocks)", "none") >>
                  \o (IF ~ callOcr THEN << >>
                      ELSE << Call("_perform_ocr_on_page",
                                   IF ocrFails THEN "ocr failed" ELSE "none") >>))
         \o (IF direct.slen # 0 /\ callOcr
             THEN << Call("_perform_ocr_on_page", IF ocrFails THEN "ocr failed" ELSE "none") >>
             ELSE << >>)

\* one iteration of the page loop
pdf_page ==
    /\ pc = "pdf_pages"
    /\ pageNum < pageCount
    /\ \E failAt \in {"none", "get_text", "blocks"},
          direct \in DirectTexts, blocks \in BlockTexts,
          raw \in OcrTexts, ocrFails \in BOOLEAN :
          LET r == ExtractPage(pageNum + 1, direct, blocks, raw, ocrFails, ocrAvailable)
          IN  /\ calls' = calls \o PageCalls(failAt, direct, r.ocrCalled, ocrFails)
              /\ IF failAt = "get_text" \/ (failAt = "blocks" /\ direct.slen = 0)
                 THEN /\ PdfExcept("page extraction failed")
                      /\ UNCHANGED <<pageNum, pages, lastPage>>
                 ELSE /\ lastPage' = r
                      /\ pages' = IF r.emitted THEN Append(pages, PageUnit(r)) ELSE pages
                      /\ pageNum' = pageNum + 1
                      /\ UNCHANGED <<pc, events, result, error>>
    /\ UNCHANGED <<regVars, dirVars, fetchVars, proc, file, ocrAvailable, handle, pageCount, attempts, elements>>

\* the metadata loop over the split documents
PdfEnhance(documents) ==
    [i \in DOMAIN documents |->
        [documents[i] EXCEPT !.chunk_id = ChunkId(i - 1), !.total_chunks = Len(documents)]]

\* after the page loop: doc.close(), the empty exit, split, enhance, return
pdf_finish ==
    /\ pc = "pdf_pages"
    /\ pageNum = pageCount
    /\ handle' = [handle EXCEPT !.closed = @ + 1]
    /\ IF pages = << >>
       THEN /\ events' = Append(events, EvComplete("success_empty", 0))
            /\ Return(<< >>)
       ELSE \E fails \in BOOLEAN, counts \in [1..Len(pages) -> 1..MaxPieces] :
               IF fails
               THEN PdfExcept("splitter failed")
               ELSE LET documents == PdfEnhance(split_documents(pages, counts))
                    IN  /\ events' = Append(events, EvComplete("success", Len(documents)))
                        /\ Return(documents)
    /\ UNCHANGED <<regVars, dirVars, fetchVars, proc, file, ocrAvailable, pageCount, pageNum, pages, lastPage,
                   attempts, elements, calls>>


\* ------------------------------------------------------------------------
\* TextProcessor._process_text_internal
\* ------------------------------------------------------------------------
\* the encodings of the retry loop, in the order of the list literal
\* (variant: the first two swapped)
FallbackEncodingsSwapped == <<"cp1252", "latin-1", "iso-8859-1">>

FallbackEncodings == <<"latin-1", "cp1252", "iso-8859-1">>

\* what one TextLoader(...).load_and_split(...) does
LoadOutcomes == {"ok", "UnicodeDecodeError", "error"}

\* the n documents load_and_split returns
Loaded(n) ==
    [k \in 1..n |-> [unit |-> 1, piece |-> k, method |-> "none", src |-> "file",
                     chunk_id |-> NoId, total_chunks |-> -1, encoding |-> "none",
                     clen |-> 1]]

\* the metadata loop of the UTF-8 path
TextEnhance(documents) ==
    [i \in DOMAIN documents |->
        [documents[i] EXCEPT !.chunk_id = ChunkId(i - 1), !.total_chunks = Len(documents)]]

\* the metadata loop of the fallback path, base_metadata["encoding"] included
\* (variant: numbering from 1)
TextEnhanceFallbackOneBased(documents, encoding) ==
    [i \in DOMAIN documents |->
        [documents[i] EXCEPT !.chunk_id = ChunkId(i), !.total_chunks = Len(documents),
                             !.encoding = encoding]]

TextEnhanceFallback(documents, encoding) ==
    [i \in DOMAIN documents |->
        [documents[i] EXCEPT !.chunk_id = ChunkId(i - 1), !.total_chunks = Len(documents),
                             !.encoding = encoding]]

\* str(e) of what one load raised
LoadError(outcome) ==
    CASE outcome = "ok" -> "none"
      [] outcome = "UnicodeDecodeError" -> "codec can't decode"
      [] outcome = "error" -> "loader failed"

\* the try block: load as UTF-8, exit empty or enhance and return
text_load_utf8 ==
    /\ pc = "text"
    /\ \E outcome \in LoadOutcomes, n \in 0..MaxTextChunks :
        /\ attempts' = Append(attempts, [encoding |-> "utf-8", outcome |-> outcome])
        /\ calls' = Append(calls, Call("TextLoader", LoadError(outcome)))
        /\ CASE outcome = "ok" ->
                  IF n = 0
                  THEN /\ events' = Append(events, EvComplete("success_empty", 0))
                       /\ Return(<< >>)
                  ELSE /\ events' = Append(events, EvComplete("success", n))
                       /\ Return(TextEnhance(Loaded(n)))
            [] outcome = "UnicodeDecodeError" ->
                  /\ pc' = "text_fallback"
                  /\ UNCHANGED <<events, result, error>>
            [] outcome = "error" ->
                  /\ Raise(Err("Exception", "Error processing text file", "loader failed"))
                  /\ UNCHANGED events
    /\ UNCHANGED <<regVars, dirVars, fetchVars, proc, file, ocrAvailable, handle, pageCount, pageNum, pages,
                   lastPage, elements>>

\* one iteration of the retry loop inside except UnicodeDecodeError, and the
\* raise after the loop when the last encoding failed too
text_fallback ==
    /\ pc = "text_fallback"
    /\ Len(attempts) <= Len(FallbackEncodings)
    /\ LET encoding == FallbackEncodings[Len(attempts)]
       IN  \E outcome \in LoadOutcomes, n \in 0..MaxTextChunks :
              /\ attempts' = Append(attempts, [encoding |-> encoding, outcome |-> outcome])
              /\ calls' = Append(calls, Call("TextLoader", LoadError(outcome)))
              /\ CASE outcome = "ok" ->
                         Return(TextEnhanceFallback(Loaded(n), encoding))
                   [] outcome = "UnicodeDecodeError" ->
                         IF Len(attempts) = Len(FallbackEncodings)
                         THEN Raise(Err("Exception",
                                  "Could not decode text file with any supported encoding",
                                  "none"))
                         ELSE UNCHANGED <<pc, result, error>>
                   [] outcome = "error" ->
                         Raise(Err("RuntimeError", "loader failed", "none"))
    /\ UNCHANGED <<regVars, dirVars, fetchVars, proc, file, ocrAvailable, events, handle, pageCount, pageNum, pages,
                   lastPage, elements>>

\* ------------------------------------------------------------------------
\* WordProcessor._process_word_internal
\* ------------------------------------------------------------------------
\* what Docx2txtLoader.load and the splitter raise, by str(e)
WordLoadErrors == {"File is not a zip file", "file is not a Word file", "load failed"}

\* the characters of the exception messages
Chars(m) ==
    CASE m = "File is not a zip file" ->
            << "F", "i", "l", "e", " ", "i", "s", " ", "n", "o", "t", " ", "a", " ",
            "z", "i", "p", " ", "f", "i", "l", "e" >>
      [] m = "file is not a Word file" ->
            << "f", "i", "l", "e", " ", "i", "s", " ", "n", "o", "t", " ", "a", " ",
            "W", "o", "r", "d", " ", "f", "i", "l", "e" >>
      [] m = "load failed" ->
            << "l", "o", "a", "d", " ", "f", "a", "i", "l", "e", "d" >>
      [] m = "splitter failed" ->
            << "s", "p", "l", "i", "t", "t", "e", "r", " ", "f", "a", "i", "l", "e",
            "d" >>

\* the two string literals of the except clause
NotZipText ==
    << "f", "i", "l", "e", " ", "i", "s", " ", "n", "o", "t", " ", "a", " ",
    "z", "i", "p", " ", "f", "i", "l", "e" >>
NotWordText ==
    << "f", "i", "l", "e", " ", "i", "s", " ", "n", "o", "t", " ", "a", " ",
    "W", "o", "r", "d", " ", "f", "i", "l", "e" >>

\* needle in hay
Contains(needle, hay) ==
    \E k \in 0..(Len(hay) - Len(needle)) : SubSeq(hay, k + 1, k + Len(needle)) = needle

\* the note the except clause appends to the message for str(e) = s
WordNote(s) ==
    IF Contains(NotZipText, Lower(s)) THEN "only .docx supported, convert legacy .doc"
    ELSE IF Contains(NotWordText, Lower(s)) THEN "corrupted or unsupported Word format"
    ELSE "none"

\* the except clause: log_processing_error, the note, the wrapped exception
WordExcept(cause) ==
    /\ events' = Append(events, EvError("word_processing_error"))
    /\ Raise([Err("Exception", "Error processing Word document", cause)
                 EXCEPT !.note = WordNote(Chars(cause))])

WordEnhance(documents) ==
    [i \in DOMAIN documents |->
        [documents[i] EXCEPT !.chunk_id = ChunkId(i - 1), !.total_chunks = Len(documents)]]

\* Docx2txtLoader.load, the two empty exits, split, enhance, return
word_load ==
    /\ pc = "word"
    /\ \E outcome \in {"ok", "splitter failed"} \cup WordLoadErrors, nraw \in 0..1,
          text \in {Txt("docx", 20, 20), Txt("docx", 0, 0)} :
          LET raw == [k \in 1..nraw |-> [page |-> 0, method |-> "none", text |-> text]]
          IN  /\ elements' = IF outcome \in WordLoadErrors THEN << >> ELSE raw
              /\ calls' = Append(calls, Call("Docx2txtLoader",
                                  IF outcome \in WordLoadErrors THEN outcome ELSE "none"))
              /\ IF outcome \in WordLoadErrors
                 THEN WordExcept(outcome)
                 ELSE IF raw = << >>
                 THEN /\ events' = Append(events, EvComplete("success_empty", 0))
                      /\ Return(<< >>)
                 ELSE IF outcome = "splitter failed"
                 THEN WordExcept("splitter failed")
                 ELSE \E counts \in [1..Len(raw) -> 0..MaxPieces] :
                         LET documents == split_documents(raw, counts)
                         IN  IF documents = << >>
                             THEN /\ events' = Append(events, EvComplete("success_empty", 0))
                                  /\ Return(<< >>)
                             ELSE /\ events' = Append(events,
                                                      EvComplete("success", Len(documents)))
                                  /\ Return(WordEnhance(documents))
    /\ UNCHANGED <<regVars, dirVars, fetchVars, proc, file, ocrAvailable, handle, pageCount, pageNum, pages,
                   lastPage, attempts>>

\* ------------------------------------------------------------------------
\* MHTProcessor._process_mht_internal
\* ------------------------------------------------------------------------
\* (variant: the exception wrapped and raised without log_processing_error)
MhtExceptNoLog(cause) ==
    /\ UNCHANGED events
    /\ Raise(Err("Exception", "Error processing MHT file", cause))

\* the outer except clause: log_processing_error, then raise the wrapped exception
MhtExcept(cause) ==
    /\ events' = Append(events, EvError("mht_processing_error"))
    /\ Raise(Err("Exception", "Error processing MHT file", cause))

\* the inner try: UnstructuredLoader(...).load()
mht_primary ==
    /\ pc = "mht"
    /\ \E fails \in BOOLEAN, k \in 0..MaxElements, blank \in 0..1 :
       /\ calls' = Append(calls, Call("UnstructuredLoader",
                           IF fails THEN "UnstructuredLoader failed" ELSE "none"))
       /\ IF fails
          THEN pc' = "mht_manual" /\ UNCHANGED elements
          ELSE /\ pc' = "mht_split"
               /\ elements' = [i \in 1..k |->
                                  [page |-> 0, method |-> "none",
                                   text |-> IF i <= blank THEN Txt("unstructured", 0, 0)
                                            ELSE Txt("unstructured", 20, 20)]]
    /\ UNCHANGED <<regVars, dirVars, fetchVars, proc, file, ocrAvailable, events, result, error, handle, pageCount,
                   pageNum, pages, lastPage, attempts>>

\* _parse_mht_manually, called from the inner except clause
ParseMhtManually(outcome) ==
    IF outcome = "text"
    THEN << [page |-> 0, method |-> "manual_mht_parser", text |-> Txt("manual", 20, 20)] >>
    ELSE << >>

mht_manual ==
    /\ pc = "mht_manual"
    /\ \E outcome \in {"raise", "no_html", "no_text", "text"} :
       /\ calls' = Append(calls, IF outcome = "raise"
                                  THEN Call("_parse_mht_manually", "Manual MHT parsing failed")
                                  ELSE CallRet("_parse_mht_manually", outcome))
       /\ IF outcome = "raise"
          THEN MhtExcept("Manual MHT parsing failed") /\ UNCHANGED elements
          ELSE /\ elements' = ParseMhtManually(outcome)
               /\ pc' = "mht_split"
               /\ UNCHANGED <<events, result, error>>
    /\ UNCHANGED <<regVars, dirVars, fetchVars, proc, file, ocrAvailable, handle, pageCount, pageNum, pages,
                   lastPage, attempts>>

\* the metadata loop, extraction_method defaulting to that of the first document
\* (variant: the default written over every document's own extraction_method)
MhtEnhanceDefaultOnly(documents) ==
    [i \in DOMAIN documents |->
        [documents[i] EXCEPT
            !.chunk_id = ChunkId(i - 1), !.total_chunks = Len(documents),
            !.method = "unstructured_elements"]]

MhtEnhance(documents) ==
    LET extraction_method ==
            IF documents # << >> /\ documents[1].method # "none"
            THEN documents[1].method ELSE "unstructured_elements"
    IN  [i \in DOMAIN documents |->
            [documents[i] EXCEPT
                !.chunk_id = ChunkId(i - 1), !.total_chunks = Len(documents),
                !.method = IF documents[i].method # "none"
                           THEN documents[i].method ELSE extraction_method]]

\* the empty exit, split, enhance, return
mht_split ==
    /\ pc = "mht_split"
    /\ IF elements = << >>
       THEN /\ events' = Append(events, EvComplete("success_empty", 0))
            /\ Return(<< >>)
       ELSE \E fails \in BOOLEAN, counts \in [1..Len(elements) -> 0..MaxPieces] :
               IF fails
               THEN MhtExcept("splitter failed")
               ELSE LET documents == MhtEnhance(split_documents(elements, counts))
                    IN  /\ events' = Append(events, EvComplete("success", Len(documents)))
                        /\ Return(documents)
    /\ UNCHANGED <<regVars, dirVars, fetchVars, proc, file, ocrAvailable, handle, pageCount, pageNum, pages,
                   lastPage, attempts, elements, calls>>

\* ------------------------------------------------------------------------
\* store_embeddings.process_documents_from_directory
\* ------------------------------------------------------------------------
\* most children the directory has
MaxDirFiles == 3

\* the kinds of child explored: files of three processor formats, a file of
\* no format, and a subdirectory whose name ends in .txt
DirChildren ==
    { [is_file |-> TRUE,  suffix |-> SufTxt],
      [is_file |-> TRUE,  suffix |-> SufPDF],
      [is_file |-> TRUE,  suffix |-> SufMht],
      [is_file |-> TRUE,  suffix |-> SufXyz],
      [is_file |-> FALSE, suffix |-> SufTxt] }

DirListings == UNION { [1..n -> DirChildren] : n \in 0..MaxDirFiles }

\* the documents registry.process_document returned for child k
DocsOf(chunks, k) == [i \in DOMAIN chunks |-> [file |-> k, by |-> chunks[i].by, idx |-> i]]

\* the body of the for loop for child k: what registry calls it makes, what
\* it logs about the child, and the documents it obtained
DirStep(procs, emap, f, k, fails, n) ==
    IF f.is_file /\ Lower(f.suffix) \in DOMAIN emap
    THEN IF GetProcessorForFile(procs, emap, f.suffix) # NoneProc
         THEN LET o == ProcessOutcome(procs, emap, f.suffix, fails, n)
              IN  IF o.raised # "none"
                  THEN [kind |-> "error", processCalls |-> 1,
                        logged |-> "error: Error processing document", docs |-> << >>]
                  ELSE [kind |-> "processed", processCalls |-> 1,
                        logged |-> "info: Document processed successfully",
                        docs |-> DocsOf(o.chunks, k)]
         ELSE [kind |-> "no_processor", processCalls |-> 0,
               logged |-> "warning: No processor found for file", docs |-> << >>]
    ELSE [kind |-> "skipped", processCalls |-> 0, logged |-> "none", docs |-> << >>]

\* all_documents.extend(docs)
Extend(all, docs) == all \o docs

\* the directory test, get_document_processor_registry(), all_documents = []
dir_begin ==
    /\ pc = "dir_start"
    /\ IF ~ file.exists
       THEN /\ Raise(Err("FileNotFoundError", "Directory not found", "none"))
            /\ UNCHANGED <<processors, extension_map, all_documents>>
       ELSE /\ processors' = get_document_processor_registry.processors
            /\ extension_map' = get_document_processor_registry.extension_map
            /\ all_documents' = << >>
            /\ pc' = "dir_loop"
            /\ UNCHANGED <<result, error>>
    /\ UNCHANGED <<fetchVars, regLog, prevGet, lastOp, dirFiles, dirIdx, dirLog, proc, file, ocrAvailable,
                   events, handle, pageCount, pageNum, pages, lastPage, attempts, elements,
                   calls>>

\* one iteration of the for loop over directory.iterdir()
\* (variant: the loop body without the try / except around it)
dir_visit_no_except ==
    /\ pc = "dir_loop"
    /\ dirIdx < Len(dirFiles)
    /\ \E fails \in BOOLEAN, n \in 0..MaxDelegChunks :
          LET k == dirIdx + 1
              step == DirStep(processors, extension_map, dirFiles[k], k, fails, n)
          IN  /\ dirLog' = Append(dirLog, step)
              /\ all_documents' = IF step.kind = "processed"
                                  THEN Extend(all_documents, step.docs)
                                  ELSE all_documents
              /\ dirIdx' = k
              /\ IF step.kind = "error"
                 THEN Raise(Err("Exception", "processor failed", "none"))
                 ELSE UNCHANGED <<pc, result, error>>
    /\ UNCHANGED <<regVars, fetchVars, dirFiles, proc, file, ocrAvailable, events, handle, pageCount,
                   pageNum, pages, lastPage, attempts, elements, calls>>

dir_visit ==
    /\ pc = "dir_loop"
    /\ dirIdx < Len(dirFiles)
    /\ \E fails \in BOOLEAN, n \in 0..MaxDelegChunks :
          LET k == dirIdx + 1
              step == DirStep(processors, extension_map, dirFiles[k], k, fails, n)
          IN  /\ dirLog' = Append(dirLog, step)
              /\ all_documents' = IF step.kind = "processed"
                                  THEN Extend(all_documents, step.docs)
                                  ELSE all_documents
              /\ dirIdx' = k
    /\ UNCHANGED <<regVars, fetchVars, dirFiles, procVars>>

\* after the loop: return all_documents
dir_finish ==
    /\ pc = "dir_loop"
    /\ dirIdx = Len(dirFiles)
    /\ Return(all_documents)
    /\ UNCHANGED <<regVars, dirVars, fetchVars, proc, file, ocrAvailable, events, handle, pageCount,
                   pageNum, pages, lastPage, attempts, elements, calls>>

\* ------------------------------------------------------------------------
\* CharacterTextSplitter as TextProcessor configures it
\* ------------------------------------------------------------------------
\* most paragraphs of the text, most characters of a paragraph
MaxParas == 3
MaxParaLen == 3
\* largest chunk_size and chunk_overlap explored
MaxChunkSize == 5
MaxOverlap == 2

\* len(separator) for the default separator "\n\n"
SepLen == 2

\* paras[j] is the length of paragraph j of the text
NoSplitIn == [paras |-> << >>, chunk_size |-> 1, chunk_overlap |-> 0]

\* the while loop of _merge_splits: drop pieces from the front of the current
\* chunk until what is left fits the overlap and leaves room for the next piece
RECURSIVE PopFront(_, _, _, _)
PopFront(cur, total, dlen, cfg) ==
    IF \/ total > cfg.chunk_overlap
       \/ (total + dlen + (IF Len(cur) > 0 THEN SepLen ELSE 0) > cfg.chunk_size /\ total > 0)
    THEN PopFront(Tail(cur),
                  total - (cfg.paras[Head(cur)] + (IF Len(cur) > 1 THEN SepLen ELSE 0)),
                  dlen, cfg)
    ELSE [cur |-> cur, total |-> total]

\* the for loop of _merge_splits from piece i on; a chunk is kept as the
\* indices of the paragraphs joined into it
RECURSIVE MergeFrom(_, _, _, _, _)
MergeFrom(i, docs, cur, total, cfg) ==
    IF i > Len(cfg.paras)
    THEN (IF cur = << >> THEN docs ELSE Append(docs, cur))
    ELSE LET dlen == cfg.paras[i]
             flush == /\ total + dlen + (IF Len(cur) > 0 THEN SepLen ELSE 0) > cfg.chunk_size
                      /\ Len(cur) > 0
             kept == IF flush THEN PopFront(cur, total, dlen, cfg)
                     ELSE [cur |-> cur, total |-> total]
             cur2 == Append(kept.cur, i)
         IN  MergeFrom(i + 1, IF flush THEN Append(docs, cur) ELSE docs, cur2,
                       kept.total + dlen + (IF Len(cur2) > 1 THEN SepLen ELSE 0), cfg)

merge_splits(cfg) == MergeFrom(1, << >>, << >>, 0, cfg)

\* the characters of paragraph j and of the separator
ParaText(j, n) == [k \in 1..n |-> <<j, k>>]
SepText == [k \in 1..SepLen |-> <<0, k>>]

\* separator.join(chunk)
RECURSIVE JoinFrom(_, _, _)
JoinFrom(chunk, i, cfg) ==
    IF i > Len(chunk) THEN << >>
    ELSE (IF i > 1 THEN SepText ELSE << >>)
         \o ParaText(chunk[i], cfg.paras[chunk[i]]) \o JoinFrom(chunk, i + 1, cfg)

\* CharacterTextSplitter.split_text: split at the separator, merge, join
split_text(cfg) ==
    LET docs == merge_splits(cfg)
    IN  [c \in DOMAIN docs |-> JoinFrom(docs[c], 1, cfg)]

text_split ==
    /\ ~ splitDone
    /\ splitOut' = split_text(splitIn)
    /\ splitDone' = TRUE
    /\ UNCHANGED <<regVars, procVars, dirVars, splitIn, cmVars, reqs, cacheVars>>

\* ------------------------------------------------------------------------
\* rag_fetch.connection_manager.ConnectionManager
\* ------------------------------------------------------------------------
\* largest max_connections a ConnectionManager is constructed with
MaxLimit == 2
\* largest connection_timeout, in clock ticks
MaxTimeout == 1
\* last clock value explored
MaxTime == 2
\* ids uuid4 hands out in one run
MaxCreates == 2
\* rejected create_connection calls in one run
MaxRejects == 1
\* update_activity calls on one connection
MaxRequests == 1

ZeroMetrics ==
    [total_connections |-> 0, current_connections |-> 0, failed_connections |-> 0,
     timed_out_connections |-> 0, rejected_connections |-> 0]

NoCmOp == [op |-> "none", raised |-> "none", ret |-> 0, before |-> << >>,
           metricsBefore |-> ZeroMetrics, at |-> 0]

\* the record of one ConnectionManager call made in the current state
CmOp(op, raised, ret) ==
    [op |-> op, raised |-> raised, ret |-> ret, before |-> connections,
     metricsBefore |-> metrics, at |-> now]

\* ConnectionInfo(...) as create_connection builds it at time t; client_ip,
\* user_agent and connected_at are only reported, never tested
ConnectionInfo(t) == [last_activity |-> t, requests_count |-> 0]

\* d without the keys in ids
Without(d, ids) == [k \in DOMAIN d \ ids |-> d[k]]

\* d with key k bound to v
With(d, k, v) == [j \in DOMAIN d \cup {k} |-> IF j = k THEN v ELSE d[j]]

\* the entries _cleanup_timed_out_connections collects at time t
TimedOut(conns, t) ==
    {id \in DOMAIN conns : t - conns[id].last_activity > connection_timeout}

\* close_connection on a table and its metrics
CloseIn(conns, mets, id) ==
    IF id \in DOMAIN conns
    THEN [connections |-> Without(conns, {id}),
          metrics |-> [mets EXCEPT !.current_connections = Cardinality(DOMAIN conns \ {id})]]
    ELSE [connections |-> conns, metrics |-> mets]

cleanup_timed_out_connections_uncounted(conns, mets) ==
    LET out == TimedOut(conns, now)
    IN  [connections |-> Without(conns, out),
         metrics |-> IF out = {} THEN mets
                     ELSE [mets EXCEPT
                              !.current_connections = Cardinality(DOMAIN conns \ out)],
         removed |-> Cardinality(out)]

\* _cleanup_timed_out_connections: each collected entry is closed and counted
cleanup_timed_out_connections(conns, mets) ==
    LET out == TimedOut(conns, now)
    IN  [connections |-> Without(conns, out),
         metrics |-> IF out = {} THEN mets
                     ELSE [mets EXCEPT
                              !.current_connections = Cardinality(DOMAIN conns \ out),
                              !.timed_out_connections = @ + Cardinality(out)],
         removed |-> Cardinality(out)]

LimitReachedStrict(conns) == Cardinality(DOMAIN conns) > max_connections

\* the limit test of create_connection
LimitReached(conns) == Cardinality(DOMAIN conns) >= max_connections

\* create_connection on the current state: what it raises or returns, and
\* the table and metrics it leaves
CreateOutcome ==
    IF LimitReached(connections)
    THEN [raised |-> "ConnectionError", ret |-> 0, connections |-> connections,
          metrics |-> [metrics EXCEPT !.rejected_connections = @ + 1],
          removed |-> 0]
    ELSE LET c == cleanup_timed_out_connections(connections, metrics)
             t == With(c.connections, nextId, ConnectionInfo(now))
         IN  [raised |-> "none", ret |-> nextId, connections |-> t,
              metrics |-> [c.metrics EXCEPT
                              !.total_connections = @ + 1,
                              !.current_connections = Cardinality(DOMAIN t)],
              removed |-> c.removed]

\* create_connection with the cleanup moved in front of the limit test
CreateOutcomeCleanupFirst ==
    LET c == cleanup_timed_out_connections(connections, metrics)
    IN  IF LimitReached(c.connections)
        THEN [raised |-> "ConnectionError", ret |-> 0, connections |-> c.connections,
              metrics |-> [c.metrics EXCEPT !.rejected_connections = @ + 1],
              removed |-> c.removed]
        ELSE LET t == With(c.connections, nextId, ConnectionInfo(now))
             IN  [raised |-> "none", ret |-> nextId, connections |-> t,
                  metrics |-> [c.metrics EXCEPT
                                  !.total_connections = @ + 1,
                                  !.current_connections = Cardinality(DOMAIN t)],
                  removed |-> c.removed]

\* the ConnectionManager part of a step that makes the call recorded in op
\* and leaves table conns and metrics mets
CmStep(op, conns, mets, created, removed) ==
    /\ connections' = conns
    /\ metrics' = mets
    /\ cmLast' = op
    /\ nextId' = nextId + created
    /\ createdOk' = createdOk + created
    /\ removedByTimeout' = removedByTimeout + removed
    /\ UNCHANGED <<max_connections, connection_timeout, now>>

create_connection_cleanup_first ==
    /\ LET o == CreateOutcomeCleanupFirst
       IN  IF o.raised = "none" THEN nextId <= MaxCreates
           ELSE metrics.rejected_connections < MaxRejects
    /\ LET o == CreateOutcomeCleanupFirst
       IN  CmStep(CmOp("create_connection", o.raised, o.ret), o.connections, o.metrics,
                  IF o.raised = "none" THEN 1 ELSE 0, o.removed)
    /\ UNCHANGED <<regVars, procVars, dirVars, splitVars, reqs, cacheVars>>

create_connection ==
    /\ LET o == CreateOutcome
       IN  IF o.raised = "none" THEN nextId <= MaxCreates
           ELSE metrics.rejected_connections < MaxRejects
    /\ LET o == CreateOutcome
       IN  CmStep(CmOp("create_connection", o.raised, o.ret), o.connections, o.metrics,
                  IF o.raised = "none" THEN 1 ELSE 0, o.removed)
    /\ UNCHANGED <<regVars, procVars, dirVars, splitVars, reqs, cacheVars>>

\* update_connection_activity, for a known or an unknown id
update_connection_activity ==
    \E id \in 1..nextId :
        /\ id \in DOMAIN connections => connections[id].requests_count < MaxRequests
        /\ CmStep(CmOp("update_connection_activity", "none", id),
                  IF id \in DOMAIN connections
                  THEN [connections EXCEPT ![id].last_activity = now,
                                           ![id].requests_count = @ + 1]
                  ELSE connections,
                  metrics, 0, 0)
        /\ UNCHANGED <<regVars, procVars, dirVars, splitVars, reqs, cacheVars>>

\* close_connection, for a known or an unknown id
close_connection ==
    \E id \in 1..nextId :
        /\ LET o == CloseIn(connections, metrics, id)
           IN  CmStep(CmOp("close_connection", "none", id), o.connections, o.metrics, 0, 0)
        /\ UNCHANGED <<regVars, procVars, dirVars, splitVars, reqs, cacheVars>>

get_active_connections ==
    /\ LET c == cleanup_timed_out_connections(connections, metrics)
       IN  CmStep(CmOp("get_active_connections", "none", 0), c.connections, c.metrics,
                  0, c.removed)
    /\ UNCHANGED <<regVars, procVars, dirVars, splitVars, reqs, cacheVars>>

\* get_metrics: the returned copy carries len(connections) and is not kept
get_metrics ==
    /\ LET c == cleanup_timed_out_connections(connections, metrics)
       IN  CmStep(CmOp("get_metrics", "none", 0), c.connections, c.metrics, 0, c.removed)
    /\ UNCHANGED <<regVars, procVars, dirVars, splitVars, reqs, cacheVars>>

\* shutdown closes every connection; the counters are not reset
shutdown ==
    /\ CmStep(CmOp("shutdown", "none", 0), << >>,
              IF DOMAIN connections = {} THEN metrics
              ELSE [metrics EXCEPT !.current_connections = 0],
              0, 0)
    /\ UNCHANGED <<regVars, procVars, dirVars, splitVars, reqs, cacheVars>>

\* time.time() advances between calls
clock_tick ==
    /\ now < MaxTime
    /\ now' = now + 1
    /\ UNCHANGED <<connections, metrics, max_connections, connection_timeout, nextId,
                   cmLast, createdOk, removedByTimeout>>
    /\ UNCHANGED <<regVars, procVars, dirVars, splitVars, reqs, cacheVars>>

\* ------------------------------------------------------------------------
\* rag_fetch.mcp_server.connection_tracking_middleware
\* ------------------------------------------------------------------------
\* requests in flight at once
MaxReqs == 2

\* connection_id = None
NoConn == 0

NoExc == [type |-> "none", msg |-> "none"]

\* what create_connection raises at the limit
LimitError == [type |-> "ConnectionError", msg |-> "Maximum connections exceeded"]

\* what call_next can raise: an Exception of the request's handler, one whose
\* message mentions create_connection, and the cancellation of the task
\* awaiting it, which is a BaseException
CallNextRaises ==
    { [type |-> "Exception", msg |-> "Request processing failed"],
      [type |-> "Exception", msg |-> "tool create_connection failed"],
      [type |-> "CancelledError", msg |-> "none"] }

\* str(e), character by character
StrOf(e) ==
    CASE e.msg = "Maximum connections exceeded" ->
            << "M", "a", "x", "i", "m", "u", "m", " ", "c", "o", "n", "n", "e",
               "c", "t", "i", "o", "n", "s", " ", "e", "x", "c", "e", "e", "d",
               "e", "d" >>
      [] e.msg = "Request processing failed" ->
            << "R", "e", "q", "u", "e", "s", "t", " ", "p", "r", "o", "c", "e",
               "s", "s", "i", "n", "g", " ", "f", "a", "i", "l", "e", "d" >>
      [] e.msg = "tool create_connection failed" ->
            << "t", "o", "o", "l", " ", "c", "r", "e", "a", "t", "e", "_", "c",
               "o", "n", "n", "e", "c", "t", "i", "o", "n", " ", "f", "a", "i",
               "l", "e", "d" >>
      [] OTHER -> << >>

CreateConnectionText ==
    << "c", "r", "e", "a", "t", "e", "_", "c", "o", "n", "n", "e", "c",
       "t", "i", "o", "n" >>

\* does `except Exception` catch e
IsException(e) == e.type \in {"Exception", "ConnectionError"}

\* the handler's test for a failure of the tracking itself
IsTrackingFailure(e, connection_id) ==
    Contains(CreateConnectionText, StrOf(e)) \/ connection_id = NoConn

\* a request the middleware has not been entered for yet
NewReq ==
    [pc |-> "new", connection_id |-> NoConn, created |-> FALSE, call_next |-> 0,
     closes |-> 0, first |-> "none", firstExc |-> NoExc, ret |-> "none", exc |-> NoExc]

\* the middleware up to its first await: create_connection, and on a
\* ConnectionError the except clause, which goes on to call_next
mw_enter ==
    \E r \in DOMAIN reqs :
        /\ reqs[r].pc = "new"
        /\ LET o == CreateOutcome
           IN  /\ CmStep(CmOp("create_connection", o.raised, o.ret), o.connections,
                         o.metrics, IF o.raised = "none" THEN 1 ELSE 0, o.removed)
               /\ reqs' = [reqs EXCEPT ![r] =
                              IF o.raised = "none"
                              THEN [@ EXCEPT !.pc = "call_next", !.connection_id = o.ret,
                                             !.created = TRUE]
                              ELSE IF IsTrackingFailure(LimitError, NoConn)
                                   THEN [@ EXCEPT !.pc = "handler_call_next"]
                                   ELSE [@ EXCEPT !.pc = "raised", !.exc = LimitError]]
        /\ UNCHANGED <<regVars, procVars, dirVars, splitVars, cacheVars>>

\* the except clause entered for e raised by call_next, the connection
\* being closed first
HandlerFor(q, e) ==
    IF IsTrackingFailure(e, q.connection_id)
    THEN [q EXCEPT !.pc = "handler_call_next", !.closes = @ + 1]
    ELSE [q EXCEPT !.pc = "raised", !.exc = e, !.closes = @ + 1]

\* await call_next(request) in the try block completes: with a response the
\* connection is closed and the response returned; an Exception enters the
\* except clause; anything else leaves the middleware as it is
mw_call_next ==
    \E r \in DOMAIN reqs :
        /\ reqs[r].pc = "call_next"
        /\ \/ /\ LET c == CloseIn(connections, metrics, reqs[r].connection_id)
                 IN  CmStep(CmOp("close_connection", "none", reqs[r].connection_id),
                            c.connections, c.metrics, 0, 0)
              /\ reqs' = [reqs EXCEPT ![r] =
                             [@ EXCEPT !.pc = "returned", !.call_next = @ + 1,
                                       !.closes = @ + 1, !.first = "response",
                                       !.ret = "response"]]
           \/ \E e \in CallNextRaises :
                 IF IsException(e)
                 THEN /\ LET c == CloseIn(connections, metrics, reqs[r].connection_id)
                         IN  CmStep(CmOp("close_connection", "none",
                                         reqs[r].connection_id),
                                    c.connections, c.metrics, 0, 0)
                      /\ reqs' = [reqs EXCEPT ![r] =
                                     HandlerFor([@ EXCEPT !.call_next = @ + 1,
                                                          !.first = "raised",
                                                          !.firstExc = e], e)]
                 ELSE /\ reqs' = [reqs EXCEPT ![r] =
                                     [@ EXCEPT !.pc = "raised", !.call_next = @ + 1,
                                               !.first = "raised", !.firstExc = e,
                                               !.exc = e]]
                      /\ UNCHANGED cmVars
        /\ UNCHANGED <<regVars, procVars, dirVars, splitVars, cacheVars>>

\* `return await call_next(request)` inside the except clause completes:
\* whatever it raises leaves the middleware
mw_handler_call_next ==
    \E r \in DOMAIN reqs :
        /\ reqs[r].pc = "handler_call_next"
        /\ \/ reqs' = [reqs EXCEPT ![r] =
                          [@ EXCEPT !.pc = "returned", !.call_next = @ + 1,
                                    !.first = IF @ = "none" THEN "response" ELSE @,
                                    !.ret = "response"]]
           \/ \E e \in CallNextRaises :
                 reqs' = [reqs EXCEPT ![r] =
                             [@ EXCEPT !.pc = "raised", !.call_next = @ + 1,
                                       !.firstExc = IF reqs[r].first = "none" THEN e ELSE @,
                                       !.first = IF @ = "none" THEN "raised" ELSE @,
                                       !.exc = e]]
        /\ UNCHANGED <<regVars, procVars, dirVars, splitVars, cmVars, cacheVars>>

\* ------------------------------------------------------------------------
\* rag_fetch.search_similarity.get_cached_vectorstore
\* ------------------------------------------------------------------------
\* most load_vectorstore calls that return, last clock value explored
MaxLoads == 2
MaxClock == 30

\* _cache_ttl, in seconds
cache_ttl == 30

\* ModelVendor.OPENAI.value, ModelVendor.GOOGLE.value
OPENAI == << "o", "p", "e", "n", "a", "i" >>
GOOGLE == << "g", "o", "o", "g", "l", "e" >>
ModelVendor == {OPENAI, GOOGLE}

\* DEFAULT_COLLECTION_NAME without CHROMADB_COLLECTION_NAME in the environment
DEFAULT_COLLECTION_NAME == << "l", "a", "n", "g", "c", "h", "a", "i", "n" >>

\* the literal 'default' of the cache key
DefaultKeyText == << "d", "e", "f", "a", "u", "l", "t" >>

\* a collection_name argument: None (the default of the parameter) or a string
NoneName == [given |-> FALSE, name |-> << >>]
Named(s) == [given |-> TRUE, name |-> s]

\* the collection_name arguments explored
CollectionArgs == {NoneName, Named(DefaultKeyText), Named(<< "d", "o", "c", "s" >>)}

\* x or y, for a collection_name x
OrElse(c, s) == IF c.given /\ c.name # << >> THEN c.name ELSE s

\* f"{model_vendor.value}_{collection_name or 'default'}"
CacheKey(vendor, c) == vendor \o << "_" >> \o OrElse(c, DefaultKeyText)

NoEntry == [vectorstore |-> 0, timestamp |-> 0]

NoCacheOp ==
    [op |-> "none", vendor |-> << >>, collection |-> NoneName, force_refresh |-> FALSE,
     key |-> << >>, at |-> 0, entryBefore |-> NoEntry, loadCalled |-> FALSE,
     raised |-> "none", ret |-> 0]

\* the entry under key k, NoEntry when there is none
EntryAt(cache, k) == IF k \in DOMAIN cache THEN cache[k] ELSE NoEntry

\* load_vectorstore(model_vendor, collection_name): the Chroma instance
Chroma(vendor, c) ==
    [vendor |-> vendor, collection |-> c,
     collection_name |-> OrElse(c, DEFAULT_COLLECTION_NAME)]

IsFreshInclusive(cache, k, t) ==
    k \in DOMAIN cache /\ t - cache[k].timestamp <= cache_ttl

\* the validity test of a cached entry at time t
IsFresh(cache, k, t) ==
    k \in DOMAIN cache /\ t - cache[k].timestamp < cache_ttl

\* get_cached_vectorstore: a valid entry is returned; otherwise
\* load_vectorstore is called and either returns an instance, which is
\* stored under the key with current_time, or raises, which leaves the cache
\* as it was.  A vectorstore is the index of its load in loads.
get_cached_vectorstore ==
    \E vendor \in ModelVendor, c \in CollectionArgs, force_refresh \in BOOLEAN :
        LET k == CacheKey(vendor, c)
            op == [op |-> "get_cached_vectorstore", vendor |-> vendor, collection |-> c,
                   force_refresh |-> force_refresh, key |-> k, at |-> now,
                   entryBefore |-> EntryAt(vectorstore_cache, k), loadCalled |-> FALSE,
                   raised |-> "none", ret |-> 0]
        IN  /\ IF ~ force_refresh /\ IsFresh(vectorstore_cache, k, now)
               THEN /\ cacheLast' = [op EXCEPT !.ret = vectorstore_cache[k].vectorstore]
                    /\ UNCHANGED <<vectorstore_cache, loads>>
               ELSE \/ /\ Len(loads) < MaxLoads
                       /\ loads' = Append(loads, Chroma(vendor, c))
                       /\ vectorstore_cache' =
                              With(vectorstore_cache, k,
                                   [vectorstore |-> Len(loads) + 1, timestamp |-> now])
                       /\ cacheLast' = [op EXCEPT !.loadCalled = TRUE,
                                                  !.ret = Len(loads) + 1]
                    \/ /\ cacheLast' = [op EXCEPT !.loadCalled = TRUE,
                                                  !.raised = "ConnectionError"]
                       /\ UNCHANGED <<vectorstore_cache, loads>>
            /\ UNCHANGED <<regVars, procVars, dirVars, splitVars, cmVars, reqs>>

\* time.time() advances between calls, here by half the TTL at a time
cache_clock ==
    \E d \in {cache_ttl \div 2} :
        /\ now + d <= MaxClock
        /\ now' = now + d
        /\ UNCHANGED <<connections, metrics, max_connections, connection_timeout, nextId,
                       cmLast, createdOk, removedByTimeout>>
        /\ UNCHANGED <<regVars, procVars, dirVars, splitVars, reqs, cacheVars>>

\* ------------------------------------------------------------------------
\* Specifications
\* ------------------------------------------------------------------------
vars == <<regVars, procVars, dirVars, fetchVars>>

\* a fresh registry, with no processor call in progress
InitRegistry ==
    /\ processors = << >>
    /\ extension_map = << >>
    /\ regLog = << >>
    /\ prevGet = NoOp
    /\ lastOp = NoOp
    /\ pc = "idle"
    /\ proc = "pdf"
    /\ file = [exists |-> TRUE, suffix |-> SufPdf]
    /\ ocrAvailable = FALSE
    /\ events = << >>
    /\ result = << >>
    /\ error = NoError
    /\ handle = [opened |-> 0, closed |-> 0]
    /\ pageCount = 0
    /\ pageNum = 0
    /\ pages = << >>
    /\ lastPage = NoPage
    /\ attempts = << >>
    /\ elements = << >>
    /\ calls = << >>
    /\ dirFiles = << >>
    /\ dirIdx = 0
    /\ all_documents = << >>
    /\ dirLog = << >>
    /\ splitIn = NoSplitIn
    /\ splitOut = << >>
    /\ splitDone = FALSE
    /\ connections = << >>
    /\ metrics = ZeroMetrics
    /\ max_connections = 0
    /\ connection_timeout = 0
    /\ now = 0
    /\ nextId = 1
    /\ cmLast = NoCmOp
    /\ createdOk = 0
    /\ removedByTimeout = 0
    /\ reqs = << >>
    /\ vectorstore_cache = << >>
    /\ loads = << >>
    /\ cacheLast = NoCacheOp

NextRegistry ==
    \/ \E p \in Pool : register_processor(p)
    \/ \E s \in RegSuffixes : get_processor_for_file(s)
    \/ \E s \in RegSuffixes, fails \in BOOLEAN, n \in 0..MaxDelegChunks :
           registry_process_document(s, fails, n)

SpecRegistry == InitRegistry /\ [][NextRegistry]_vars

\* a processor about to be called on some file; the registry is not involved
InitProc ==
    /\ pc = "idle"
    /\ proc \in Processors
    /\ file \in [exists : BOOLEAN, suffix : ProcSuffixes]
    /\ ocrAvailable \in BOOLEAN
    /\ events = << >>
    /\ result = << >>
    /\ error = NoError
    /\ handle = [opened |-> 0, closed |-> 0]
    /\ pageCount = 0
    /\ pageNum = 0
    /\ pages = << >>
    /\ lastPage = NoPage
    /\ attempts = << >>
    /\ elements = << >>
    /\ calls = << >>
    /\ dirFiles = << >>
    /\ dirIdx = 0
    /\ all_documents = << >>
    /\ dirLog = << >>
    /\ processors = << >>
    /\ extension_map = << >>
    /\ regLog = << >>
    /\ prevGet = NoOp
    /\ lastOp = NoOp
    /\ splitIn = NoSplitIn
    /\ splitOut = << >>
    /\ splitDone = FALSE
    /\ connections = << >>
    /\ metrics = ZeroMetrics
    /\ max_connections = 0
    /\ connection_timeout = 0
    /\ now = 0
    /\ nextId = 1
    /\ cmLast = NoCmOp
    /\ createdOk = 0
    /\ removedByTimeout = 0
    /\ reqs = << >>
    /\ vectorstore_cache = << >>
    /\ loads = << >>
    /\ cacheLast = NoCacheOp

NextProc ==
    \/ process_document_begin
    \/ pdf_open
    \/ pdf_page
    \/ pdf_finish
    \/ text_load_utf8
    \/ text_fallback
    \/ word_load
    \/ mht_primary
    \/ mht_manual
    \/ mht_split

SpecProc == InitProc /\ [][NextProc]_vars

\* registry.process_document(file) about to be called on a registry of the
\* format processors
InitIngest ==
    /\ pc = "registry"
    /\ proc = "none"
    /\ file \in [exists : BOOLEAN, suffix : ProcSuffixes \cup {SufXyz}]
    /\ ocrAvailable \in BOOLEAN
    /\ \E reg \in {get_document_processor_registry, FullRegistry} :
          processors = reg.processors /\ extension_map = reg.extension_map
    /\ regLog = << >>
    /\ prevGet = NoOp
    /\ lastOp = NoOp
    /\ events = << >>
    /\ result = << >>
    /\ error = NoError
    /\ handle = [opened |-> 0, closed |-> 0]
    /\ pageCount = 0
    /\ pageNum = 0
    /\ pages = << >>
    /\ lastPage = NoPage
    /\ attempts = << >>
    /\ elements = << >>
    /\ calls = << >>
    /\ dirFiles = << >>
    /\ dirIdx = 0
    /\ all_documents = << >>
    /\ dirLog = << >>
    /\ splitIn = NoSplitIn
    /\ splitOut = << >>
    /\ splitDone = FALSE
    /\ connections = << >>
    /\ metrics = ZeroMetrics
    /\ max_connections = 0
    /\ connection_timeout = 0
    /\ now = 0
    /\ nextId = 1
    /\ cmLast = NoCmOp
    /\ createdOk = 0
    /\ removedByTimeout = 0
    /\ reqs = << >>
    /\ vectorstore_cache = << >>
    /\ loads = << >>
    /\ cacheLast = NoCacheOp

NextIngest ==
    \/ registry_dispatch
    \/ process_document_begin
    \/ pdf_open
    \/ pdf_page
    \/ pdf_finish
    \/ text_load_utf8
    \/ text_fallback
    \/ word_load
    \/ mht_primary
    \/ mht_manual
    \/ mht_split

SpecIngest == InitIngest /\ [][NextIngest]_vars

\* process_documents_from_directory(directory) about to be called; file is
\* the directory path
InitDir ==
    /\ pc = "dir_start"
    /\ proc = "none"
    /\ file \in [exists : BOOLEAN, suffix : {NoSuffix}]
    /\ dirFiles \in DirListings
    /\ (~ file.exists => dirFiles = << >>)
    /\ dirIdx = 0
    /\ all_documents = << >>
    /\ dirLog = << >>
    /\ processors = << >>
    /\ extension_map = << >>
    /\ regLog = << >>
    /\ prevGet = NoOp
    /\ lastOp = NoOp
    /\ ocrAvailable = FALSE
    /\ events = << >>
    /\ result = << >>
    /\ error = NoError
    /\ handle = [opened |-> 0, closed |-> 0]
    /\ pageCount = 0
    /\ pageNum = 0
    /\ pages = << >>
    /\ lastPage = NoPage
    /\ attempts = << >>
    /\ elements = << >>
    /\ calls = << >>
    /\ splitIn = NoSplitIn
    /\ splitOut = << >>
    /\ splitDone = FALSE
    /\ connections = << >>
    /\ metrics = ZeroMetrics
    /\ max_connections = 0
    /\ connection_timeout = 0
    /\ now = 0
    /\ nextId = 1
    /\ cmLast = NoCmOp
    /\ createdOk = 0
    /\ removedByTimeout = 0
    /\ reqs = << >>
    /\ vectorstore_cache = << >>
    /\ loads = << >>
    /\ cacheLast = NoCacheOp

NextDir ==
    \/ dir_begin
    \/ dir_visit
    \/ dir_finish

SpecDir == InitDir /\ [][NextDir]_vars

\* a text about to be split by the Text processor's CharacterTextSplitter
InitSplit ==
    /\ splitIn \in [paras : UNION { [1..n -> 1..MaxParaLen] : n \in 0..MaxParas },
                     chunk_size : 1..MaxChunkSize, chunk_overlap : 0..MaxOverlap]
    /\ splitIn.chunk_overlap <= splitIn.chunk_size
    /\ splitOut = << >>
    /\ splitDone = FALSE
    /\ pc = "idle"
    /\ proc = "text"
    /\ file = [exists |-> TRUE, suffix |-> SufTxt]
    /\ ocrAvailable = FALSE
    /\ events = << >>
    /\ result = << >>
    /\ error = NoError
    /\ handle = [opened |-> 0, closed |-> 0]
    /\ pageCount = 0
    /\ pageNum = 0
    /\ pages = << >>
    /\ lastPage = NoPage
    /\ attempts = << >>
    /\ elements = << >>
    /\ calls = << >>
    /\ dirFiles = << >>
    /\ dirIdx = 0
    /\ all_documents = << >>
    /\ dirLog = << >>
    /\ processors = << >>
    /\ extension_map = << >>
    /\ regLog = << >>
    /\ prevGet = NoOp
    /\ lastOp = NoOp
    /\ connections = << >>
    /\ metrics = ZeroMetrics
    /\ max_connections = 0
    /\ connection_timeout = 0
    /\ now = 0
    /\ nextId = 1
    /\ cmLast = NoCmOp
    /\ createdOk = 0
    /\ removedByTimeout = 0
    /\ reqs = << >>
    /\ vectorstore_cache = << >>
    /\ loads = << >>
    /\ cacheLast = NoCacheOp

NextSplit == text_split

SpecSplit == InitSplit /\ [][NextSplit]_vars

\* a ConnectionManager just constructed
InitCm ==
    /\ splitIn = NoSplitIn
    /\ splitOut = << >>
    /\ splitDone = FALSE
    /\ pc = "idle"
    /\ proc = "text"
    /\ file = [exists |-> TRUE, suffix |-> SufTxt]
    /\ ocrAvailable = FALSE
    /\ events = << >>
    /\ result = << >>
    /\ error = NoError
    /\ handle = [opened |-> 0, closed |-> 0]
    /\ pageCount = 0
    /\ pageNum = 0
    /\ pages = << >>
    /\ lastPage = NoPage
    /\ attempts = << >>
    /\ elements = << >>
    /\ calls = << >>
    /\ dirFiles = << >>
    /\ dirIdx = 0
    /\ all_documents = << >>
    /\ dirLog = << >>
    /\ processors = << >>
    /\ extension_map = << >>
    /\ regLog = << >>
    /\ prevGet = NoOp
    /\ lastOp = NoOp
    /\ connections = << >>
    /\ metrics = ZeroMetrics
    /\ max_connections \in 0..MaxLimit
    /\ connection_timeout \in 0..MaxTimeout
    /\ now = 0
    /\ nextId = 1
    /\ cmLast = NoCmOp
    /\ createdOk = 0
    /\ removedByTimeout = 0
    /\ reqs = << >>
    /\ vectorstore_cache = << >>
    /\ loads = << >>
    /\ cacheLast = NoCacheOp

NextCm ==
    \/ create_connection
    \/ update_connection_activity
    \/ close_connection
    \/ get_active_connections
    \/ get_metrics
    \/ shutdown
    \/ clock_tick

SpecCm == InitCm /\ [][NextCm]_vars

\* the server's ConnectionManager and requests about to enter the middleware
InitMw ==
    /\ splitIn = NoSplitIn
    /\ splitOut = << >>
    /\ splitDone = FALSE
    /\ pc = "idle"
    /\ proc = "text"
    /\ file = [exists |-> TRUE, suffix |-> SufTxt]
    /\ ocrAvailable = FALSE
    /\ events = << >>
    /\ result = << >>
    /\ error = NoError
    /\ handle = [opened |-> 0, closed |-> 0]
    /\ pageCount = 0
    /\ pageNum = 0
    /\ pages = << >>
    /\ lastPage = NoPage
    /\ attempts = << >>
    /\ elements = << >>
    /\ calls = << >>
    /\ dirFiles = << >>
    /\ dirIdx = 0
    /\ all_documents = << >>
    /\ dirLog = << >>
    /\ processors = << >>
    /\ extension_map = << >>
    /\ regLog = << >>
    /\ prevGet = NoOp
    /\ lastOp = NoOp
    /\ connections = << >>
    /\ metrics = ZeroMetrics
    /\ max_connections \in 0..MaxLimit
    /\ connection_timeout \in 0..MaxTimeout
    /\ now = 0
    /\ nextId = 1
    /\ cmLast = NoCmOp
    /\ createdOk = 0
    /\ removedByTimeout = 0
    /\ reqs = [r \in 1..MaxReqs |-> NewReq]
    /\ vectorstore_cache = << >>
    /\ loads = << >>
    /\ cacheLast = NoCacheOp

NextMw ==
    \/ mw_enter
    \/ mw_call_next
    \/ mw_handler_call_next
    \/ clock_tick

SpecMw == InitMw /\ [][NextMw]_vars

\* search_similarity just imported: an empty cache
InitCache ==
    /\ splitIn = NoSplitIn
    /\ splitOut = << >>
    /\ splitDone = FALSE
    /\ pc = "idle"
    /\ proc = "text"
    /\ file = [exists |-> TRUE, suffix |-> SufTxt]
    /\ ocrAvailable = FALSE
    /\ events = << >>
    /\ result = << >>
    /\ error = NoError
    /\ handle = [opened |-> 0, closed |-> 0]
    /\ pageCount = 0
    /\ pageNum = 0
    /\ pages = << >>
    /\ lastPage = NoPage
    /\ attempts = << >>
    /\ elements = << >>
    /\ calls = << >>
    /\ dirFiles = << >>
    /\ dirIdx = 0
    /\ all_documents = << >>
    /\ dirLog = << >>
    /\ processors = << >>
    /\ extension_map = << >>
    /\ regLog = << >>
    /\ prevGet = NoOp
    /\ lastOp = NoOp
    /\ connections = << >>
    /\ metrics = ZeroMetrics
    /\ max_connections = 0
    /\ connection_timeout = 0
    /\ now = 0
    /\ nextId = 1
    /\ cmLast = NoCmOp
    /\ createdOk = 0
    /\ removedByTimeout = 0
    /\ reqs = << >>
    /\ vectorstore_cache = << >>
    /\ loads = << >>
    /\ cacheLast = NoCacheOp

NextCache ==
    \/ get_cached_vectorstore
    \/ cache_clock

SpecCache == InitCache /\ [][NextCache]_vars

\* ------------------------------------------------------------------------
\* Registry properties
\* ------------------------------------------------------------------------
\* processor p declares extension e (compared case-insensitively)
Declares(p, e) == \E x \in p.exts : Lower(x) = e

Registered == {regLog[i] : i \in DOMAIN regLog}

\* the most recently registered instance that declares e
LastDeclaring(e) ==
    LET idxs == {i \in DOMAIN regLog : Declares(regLog[i], e)}
    IN  regLog[CHOOSE i \in idxs : \A j \in idxs : j <= i]

\* C1: get_processor_for_file(f) returns None or a processor that declares
\* f's lower-cased suffix, and returns None exactly when no registered
\* processor declares that suffix.
C1_LookupReturnsDeclaringProcessor ==
    lastOp.op = "get" =>
        LET e == Lower(lastOp.suffix)
        IN  /\ (lastOp.ret = NoneProc \/ Declares(lastOp.ret, e))
            /\ (lastOp.ret = NoneProc <=> ~ \E p \in Registered : Declares(p, e))

\* C2: process_document on a file whose extension has no registered
\* processor raises the 'No processor found' ValueError and invokes no
\* processor; otherwise it invokes exactly the resolved processor once and
\* returns that processor's chunk list.
C2_ProcessDelegatesOrFails ==
    lastOp.op = "process" =>
        LET e == Lower(lastOp.suffix)
        IN  IF e \notin DOMAIN extension_map
            THEN /\ lastOp.raised = "ValueError: No processor found"
                 /\ lastOp.invoked = << >>
                 /\ lastOp.chunks = << >>
            ELSE LET p == processors[extension_map[e]]
                 IN  /\ lastOp.invoked = <<p.id>>
                     /\ lastOp.raised \in {"none", "processor_error"}
                     /\ \A i \in DOMAIN lastOp.chunks : lastOp.chunks[i].by = p.id

C2_Witness ==
    /\ lastOp.op = "process"
    /\ lastOp.invoked # << >>
    /\ lastOp.raised = "none"
    /\ Len(lastOp.chunks) >= 1

\* C3: every extension resolves to the most recently registered processor
\* that declared it, and register_processor never raises.
C3_LastRegistrationWins ==
    /\ lastOp.op = "register" => lastOp.raised = "none"
    /\ lastOp.op = "get" =>
          LET e == Lower(lastOp.suffix)
          IN  (\E p \in Registered : Declares(p, e)) => lastOp.ret = LastDeclaring(e)

\* C4: lookup is case-insensitive: two lookups whose suffixes differ only in
\* letter case, with no registration in between, return the same processor.
C4_LookupCaseInsensitive ==
    (lastOp.op = "get" /\ prevGet.op = "get"
        /\ Lower(lastOp.suffix) = Lower(prevGet.suffix))
    => lastOp.ret = prevGet.ret

C4_Witness ==
    /\ lastOp.op = "get"
    /\ prevGet.op = "get"
    /\ lastOp.suffix # prevGet.suffix
    /\ Lower(lastOp.suffix) = Lower(prevGet.suffix)
    /\ lastOp.ret # NoneProc

\* ------------------------------------------------------------------------
\* Processor properties
\* ------------------------------------------------------------------------
\* C5: a returned list of N chunks is numbered chunk_0 .. chunk_(N-1) in
\* order, and every chunk's total_chunks is N, for every processor and path.
C5_ChunkNumbering ==
    pc = "returned" =>
        \A i \in DOMAIN result :
            /\ result[i].chunk_id = <<"chunk_", i - 1>>
            /\ result[i].total_chunks = Len(result)

C5_Witness ==
    /\ pc = "returned"
    /\ proc = "text"
    /\ Len(attempts) >= 2
    /\ Len(result) >= 2

\* C6: the PDF processor closes the document it opened exactly once on every
\* way out of _process_pdf_internal, also when page extraction raises.
C6_PdfHandleClosedOnEveryPath ==
    /\ handle.closed <= handle.opened
    /\ (proc = "pdf" /\ pc \in {"returned", "raised"} /\ handle.opened = 1)
          => handle.closed = 1

\* C7 as stated: a page whose direct text is non-empty (holds at least one
\* non-blank character) never triggers OCR and is tagged pymupdf_text.
C7_NonEmptyTextNeverOcr ==
    (lastPage.page > 0 /\ lastPage.direct.slen > 0)
        => (~ lastPage.ocrCalled /\ lastPage.method = "pymupdf_text")

\* C7 amended: a page whose direct text has at least 50 characters after
\* stripping never triggers OCR, is tagged pymupdf_text and is emitted.
C7_LongTextNeverOcr ==
    (lastPage.page > 0 /\ lastPage.direct.slen >= 50)
        => /\ ~ lastPage.ocrCalled
           /\ lastPage.method = "pymupdf_text"
           /\ lastPage.emitted
           /\ lastPage.kept = lastPage.direct

C7_Witness ==
    /\ lastPage.page > 0
    /\ lastPage.direct.slen >= 50
    /\ ocrAvailable
    /\ Len(pages) >= 1

\* C8 as stated: a page with no direct text and no block text, with OCR
\* available, yields a unit tagged tesseract_ocr with non-empty content.
C8_NoTextPageYieldsOcrUnit ==
    (lastPage.page > 0 /\ lastPage.direct.len = 0 /\ lastPage.blocks.len = 0
        /\ ocrAvailable)
        => (lastPage.emitted /\ lastPage.method = "tesseract_ocr" /\ lastPage.kept.slen > 0)

\* C8 amended: on such a page OCR is attempted; the page yields a unit, tagged
\* tesseract_ocr and holding the non-empty OCR text, exactly when OCR
\* returns non-blank text, and yields no unit otherwise.
C8_NoTextPageOcrDecides ==
    (lastPage.page > 0 /\ lastPage.direct.slen = 0 /\ lastPage.blocks.slen = 0
        /\ ocrAvailable)
        => /\ lastPage.ocrCalled
           /\ lastPage.emitted <=> lastPage.ocr.slen > 0
           /\ lastPage.emitted =>
                 /\ lastPage.method = "tesseract_ocr"
                 /\ lastPage.kept = lastPage.ocr
                 /\ lastPage.kept.slen > 0
                 /\ pages[Len(pages)] = [page |-> lastPage.page, method |-> "tesseract_ocr",
                                         text |-> lastPage.ocr]

C8_Witness ==
    /\ lastPage.page > 0
    /\ lastPage.direct.len = 0
    /\ lastPage.blocks.len = 0
    /\ ocrAvailable
    /\ lastPage.emitted
    /\ lastPage.method = "tesseract_ocr"

\* C9: the Text processor loads as UTF-8 first and, only after a decode
\* failure, as latin-1, cp1252, iso-8859-1 in that order, stopping at the
\* first that decodes; returned chunks carry the winning fallback encoding,
\* and no encoding when UTF-8 decoded.
C9_EncodingOrder == <<"utf-8", "latin-1", "cp1252", "iso-8859-1">>

C9_EncodingFallbackOrder ==
    /\ Len(attempts) <= 4
    /\ \A i \in DOMAIN attempts :
          /\ attempts[i].encoding = C9_EncodingOrder[i]
          /\ i > 1 => attempts[i - 1].outcome = "UnicodeDecodeError"
    /\ (proc = "text" /\ pc = "returned") =>
          /\ attempts # << >>
          /\ attempts[Len(attempts)].outcome = "ok"
          /\ \A k \in DOMAIN result :
                result[k].encoding = IF Len(attempts) = 1 THEN "none"
                                     ELSE attempts[Len(attempts)].encoding

C9_Witness ==
    /\ proc = "text"
    /\ pc = "returned"
    /\ Len(attempts) = 3
    /\ Len(result) >= 1
    /\ result[1].encoding = "cp1252"

\* C10: when UTF-8 and the three fallback encodings all fail to decode, the
\* call fails after exactly four load attempts with an error whose message
\* names all attempted encodings.
C10_ExhaustedErrorNamesEncodings ==
    (proc = "text" /\ Len(attempts) = 4
        /\ \A i \in DOMAIN attempts : attempts[i].outcome = "UnicodeDecodeError")
        => /\ pc = "raised"
           /\ error.names = {"utf-8", "latin-1", "cp1252", "iso-8859-1"}

\* ------------------------------------------------------------------------
\* Fallback and error properties of the processors
\* ------------------------------------------------------------------------
\* the extraction step was invoked / raised during this call
Invoked(step) == \E i \in DOMAIN calls : calls[i].step = step
RaisedIn(step) == \E i \in DOMAIN calls : calls[i].step = step /\ calls[i].err # "none"

\* C11: the MHT manual parser is invoked if and only if the primary
\* UnstructuredLoader raised (never when it returned, even an empty list);
\* chunks that came through the manual parser are tagged manual_mht_parser
\* and chunks of the primary loader are tagged unstructured_elements.
C11_ManualParserIffPrimaryRaised ==
    proc = "mht" =>
        /\ Invoked("_parse_mht_manually") => RaisedIn("UnstructuredLoader")
        /\ (pc \in {"mht_split", "returned", "raised"} /\ RaisedIn("UnstructuredLoader"))
              => Invoked("_parse_mht_manually")
        /\ pc = "returned" =>
              \A i \in DOMAIN result :
                 IF Invoked("_parse_mht_manually")
                 THEN result[i].method = "manual_mht_parser" /\ result[i].src = "manual"
                 ELSE result[i].method = "unstructured_elements"
                      /\ result[i].src = "unstructured"

C11_Witness ==
    /\ proc = "mht"
    /\ pc = "returned"
    /\ RaisedIn("UnstructuredLoader")
    /\ Invoked("_parse_mht_manually")
    /\ Len(result) >= 1
    /\ result[1].method = "manual_mht_parser"

\* C12: when the manual fallback parses the file but finds no text/html
\* part, process_document fails with a NoContentFound error and does not
\* return normally.
C12_NoHtmlFailsNoContentFound ==
    (proc = "mht" /\ pc \in {"returned", "raised"}
        /\ \E i \in DOMAIN calls :
              calls[i].step = "_parse_mht_manually" /\ calls[i].ret = "no_html")
        => (pc = "raised" /\ error.type = "NoContentFound")

\* number of emitted events of one kind
CountKind(kind) == Cardinality({i \in DOMAIN events : events[i].kind = kind})

\* str(e) of the exception the step raised (the last time it raised)
ErrOf(step) ==
    LET idxs == {i \in DOMAIN calls : calls[i].step = step /\ calls[i].err # "none"}
    IN  calls[CHOOSE i \in idxs : \A j \in idxs : j <= i].err

\* C13: when the primary MHT loader and the manual parser both fail,
\* process_document raises the wrapped 'Error processing MHT file' exception
\* whose message holds the manual parser's message and not the primary
\* loader's, after exactly one processing-error event.
C13_BothFailManualErrorWins ==
    (proc = "mht" /\ RaisedIn("UnstructuredLoader") /\ RaisedIn("_parse_mht_manually"))
        => /\ pc = "raised"
           /\ error.type = "Exception"
           /\ error.msg = "Error processing MHT file"
           /\ error.cause = ErrOf("_parse_mht_manually")
           /\ error.cause # ErrOf("UnstructuredLoader")
           /\ CountKind("error") = 1
           /\ events[Len(events)] = EvError("mht_processing_error")
           /\ CountKind("complete") = 0

C13_Witness ==
    /\ proc = "mht"
    /\ pc = "raised"
    /\ RaisedIn("UnstructuredLoader")
    /\ RaisedIn("_parse_mht_manually")
    /\ error.cause = "Manual MHT parsing failed"

\* C14: for every processor, when extraction yields no content (zero-page or
\* text-less PDF, empty text file on the UTF-8 or a fallback-encoding path,
\* empty Word load or split, empty MHT element list), process_document
\* returns an empty list and emits exactly one processing-completed event,
\* with status success_empty and chunks_created 0.
C14_EmptyIsSuccessEmpty ==
    (pc = "returned" /\ result = << >> /\ (proc = "mht" => elements = << >>))
        => /\ CountKind("complete") = 1
           /\ CountKind("error") = 0
           /\ events[Len(events)] = EvComplete("success_empty", 0)

\* the steps the code falls back to when the given step raises
FallbackOf(step) ==
    CASE step = "TextLoader" -> {"TextLoader"}
      [] step = "UnstructuredLoader" -> {"_parse_mht_manually"}
      [] OTHER -> {}

\* C15: no exception raised by an extraction step is silently discarded: when
\* the call is over, every exception a step raised was either followed by a
\* fallback step, or process_document raised an error whose message holds
\* the message of that exception.
C15_NoExtractionErrorSwallowed ==
    pc \in {"returned", "raised"} =>
        \A i \in DOMAIN calls :
            calls[i].err # "none" =>
                \/ \E j \in DOMAIN calls : j > i /\ calls[j].step \in FallbackOf(calls[i].step)
                \/ pc = "raised" /\ calls[i].err \in {error.msg, error.cause}

\* the registry resolves a processor for the file's extension
Resolved == GetProcessorForFile(processors, extension_map, file.suffix) # NoneProc

\* C16 as stated: processing a path that does not exist, also through
\* ProcessorRegistry.process_document, fails with the file-not-found error;
\* no loader is invoked and no processing-started event is emitted.
C16_MissingPathFileNotFound ==
    ~ file.exists =>
        /\ calls = << >>
        /\ CountKind("start") = 0
        /\ pc \in {"returned", "raised"}
              => (pc = "raised" /\ error.type = "FileNotFoundError")

\* C16 amended: a missing path fails before any loader call or event; with
\* the file-not-found error when the registry resolves a processor for its
\* extension, and with the registry's 'No processor found' ValueError when
\* it does not.
C16_MissingPathFailsBeforeExtraction ==
    ~ file.exists =>
        /\ calls = << >>
        /\ events = << >>
        /\ pc \in {"registry", "idle", "raised"}
        /\ pc = "raised" =>
              IF Resolved
              THEN error.type = "FileNotFoundError" /\ error.msg = "File not found"
              ELSE error.type = "ValueError"
                   /\ error.msg = "No processor found for file type"

C16_Witness ==
    /\ ~ file.exists
    /\ Resolved
    /\ proc # "none"
    /\ pc = "raised"
    /\ error.type = "FileNotFoundError"

\* ------------------------------------------------------------------------
\* Directory driver properties
\* ------------------------------------------------------------------------
\* the documents obtained for the children visited so far, in visiting order
RECURSIVE DocsUpTo(_)
DocsUpTo(i) == IF i = 0 THEN << >> ELSE DocsUpTo(i - 1) \o dirLog[i].docs

\* child i is a file whose extension the registry of the driver supports
SupportedChild(i) ==
    dirFiles[i].is_file /\ Lower(dirFiles[i].suffix) \in DOMAIN extension_map

\* C17: an exception raised while processing one file never prevents the
\* remaining files from being processed: every supported file is handed to
\* the registry, and the returned list is the concatenation, in iteration
\* order, of the chunks of the files whose processing succeeded.
C17_FailuresDoNotAbortBatch ==
    /\ pc \in {"dir_loop", "returned"} =>
          /\ Len(dirLog) = dirIdx
          /\ all_documents = DocsUpTo(dirIdx)
          /\ \A i \in DOMAIN dirLog :
                SupportedChild(i) => /\ dirLog[i].processCalls = 1
                                     /\ dirLog[i].kind \in {"processed", "error"}
    /\ pc = "returned" => (dirIdx = Len(dirFiles) /\ result = all_documents)
    /\ pc = "raised" => (~ file.exists /\ dirLog = << >>)

C17_Witness ==
    /\ pc = "returned"
    /\ Len(dirLog) = 3
    /\ dirLog[1].kind = "processed"
    /\ dirLog[2].kind = "error"
    /\ dirLog[3].kind = "processed"
    /\ Len(result) = 2
    /\ result[2].file = 3

\* the extensions the four format processors declare
FormatExtensions == UNION {SupportedExtensions(p) : p \in Processors}

\* C18: a file with an unsupported extension in the directory gets exactly
\* one recorded UnsupportedFormat failure, while the supported files of the
\* directory are still processed.
C18_UnsupportedFileRecorded ==
    \A i \in DOMAIN dirLog :
        /\ (dirFiles[i].is_file /\ Lower(dirFiles[i].suffix) \notin FormatExtensions)
              => dirLog[i].logged = "warning: No processor found for file"
        /\ SupportedChild(i) => dirLog[i].processCalls = 1

\* C19: directory mode calls the registry exactly once for every child file
\* whose extension one of the four format processors declares, and for no
\* other child; the registry of get_document_processor_registry resolves a
\* processor for each of those extensions.
C19_EveryFormatFileReachesRegistry ==
    pc \in {"dir_loop", "returned"} =>
        /\ \A e \in FormatExtensions :
              GetProcessorForFile(processors, extension_map, e) # NoneProc
        /\ \A i \in DOMAIN dirLog :
              dirLog[i].processCalls =
                 IF dirFiles[i].is_file /\ Lower(dirFiles[i].suffix) \in FormatExtensions
                 THEN 1 ELSE 0

\* C20: a Word load failure carries a targeted diagnostic: the legacy-.doc
\* conversion note when the loader error says the file is not a zip file,
\* the corrupted / unsupported-format note when it says 'file is not a Word
\* file'; in both cases one processing-error event is emitted and the
\* original message is included.
C20_WordDiagnostics ==
    (proc = "word" /\ pc = "raised"
        /\ RaisedIn("Docx2txtLoader")
        /\ ErrOf("Docx2txtLoader") \in {"File is not a zip file", "file is not a Word file"})
        => /\ error.msg = "Error processing Word document"
           /\ error.cause = ErrOf("Docx2txtLoader")
           /\ CountKind("error") = 1
           /\ error.note = IF error.cause = "File is not a zip file"
                           THEN "only .docx supported, convert legacy .doc"
                           ELSE "corrupted or unsupported Word format"

C22_AdjacentChunksOverlap ==
    splitDone =>
        \A i \in 1..(Len(splitOut) - 1) :
            LET a == splitOut[i]
                b == splitOut[i + 1]
                o == splitIn.chunk_overlap
            IN  (Len(a) >= o /\ o > 0)
                   => (Len(b) >= o /\ SubSeq(a, Len(a) - o + 1, Len(a)) = SubSeq(b, 1, o))

\* ------------------------------------------------------------------------
\* ConnectionManager properties
\* ------------------------------------------------------------------------
\* the last call was create_connection on a table that already held
\* max_connections entries
CreateAtLimit ==
    /\ cmLast.op = "create_connection"
    /\ Cardinality(DOMAIN cmLast.before) >= max_connections

\* C23: create_connection called while the table already holds
\* max_connections entries raises ConnectionError, increments
\* rejected_connections by exactly one and leaves the connection table and
\* total_connections unchanged; after any sequence of operations the table
\* never holds more than max_connections entries.
C23_LimitRejects ==
    /\ Cardinality(DOMAIN connections) <= max_connections
    /\ CreateAtLimit
          => /\ cmLast.raised = "ConnectionError"
             /\ metrics.rejected_connections
                    = cmLast.metricsBefore.rejected_connections + 1
             /\ connections = cmLast.before
             /\ metrics.total_connections = cmLast.metricsBefore.total_connections

C23_Witness ==
    /\ CreateAtLimit
    /\ max_connections = 2
    /\ Cardinality(DOMAIN connections) = 2
    /\ metrics.rejected_connections = 1
    /\ metrics.total_connections = 2

\* C24: after every ConnectionManager operation, current_connections
\* equals the number of entries in the table, total_connections equals the
\* number of create_connection calls that returned, and
\* timed_out_connections equals the number of connections removed by the
\* timeout cleanup.
C24_MetricsAgree ==
    /\ metrics.current_connections = Cardinality(DOMAIN connections)
    /\ metrics.total_connections = createdOk
    /\ metrics.timed_out_connections = removedByTimeout

C24_Witness ==
    /\ createdOk >= 2
    /\ removedByTimeout >= 1
    /\ Cardinality(DOMAIN connections) = 1
    /\ metrics.total_connections > metrics.current_connections
    /\ cmLast.op = "get_metrics"

\* the entries of the table before the last call that had been idle longer
\* than connection_timeout when the call was made
IdleBefore ==
    {id \in DOMAIN cmLast.before :
        cmLast.at - cmLast.before[id].last_activity > connection_timeout}

C25_MiddlewareTracksEveryPath ==
    \A r \in DOMAIN reqs :
        LET q == reqs[r]
        IN  q.pc \in {"returned", "raised"}
               => /\ q.call_next = 1
                  /\ q.created => /\ q.closes = 1
                                  /\ q.connection_id \notin DOMAIN connections
                  /\ q.first = "raised" => (q.pc = "raised" /\ q.exc = q.firstExc)
                  /\ (~ q.created /\ q.first = "response")
                        => (q.pc = "returned" /\ q.ret = "response")

\* ------------------------------------------------------------------------
\* Vectorstore cache properties
\* ------------------------------------------------------------------------
\* the last get_cached_vectorstore call found an entry under its key that
\* was younger than the 30-second TTL, and was not told to refresh
CacheHit ==
    /\ ~ cacheLast.force_refresh
    /\ cacheLast.entryBefore # NoEntry
    /\ cacheLast.at - cacheLast.entryBefore.timestamp < 30

\* C26: get_cached_vectorstore returns the cached instance without calling
\* load_vectorstore if and only if force_refresh is false and an entry for
\* the key exists whose age is strictly less than 30 seconds; in every
\* other case it calls load_vectorstore and, when that returns, stores the
\* new instance under the key with the current time and returns it (when
\* the load raises, the cache is left as it was).
C26_CacheHitIffFresh ==
    cacheLast.op = "get_cached_vectorstore"
       => /\ CacheHit
             => /\ ~ cacheLast.loadCalled
                /\ cacheLast.raised = "none"
                /\ cacheLast.ret = cacheLast.entryBefore.vectorstore
                /\ EntryAt(vectorstore_cache, cacheLast.key) = cacheLast.entryBefore
          /\ ~ CacheHit
             => /\ cacheLast.loadCalled
                /\ cacheLast.raised = "none"
                      => /\ cacheLast.ret = Len(loads)
                         /\ cacheLast.ret # cacheLast.entryBefore.vectorstore
                         /\ EntryAt(vectorstore_cache, cacheLast.key)
                               = [vectorstore |-> cacheLast.ret,
                                  timestamp |-> cacheLast.at]
                /\ cacheLast.raised # "none"
                      => /\ cacheLast.ret = 0
                         /\ EntryAt(vectorstore_cache, cacheLast.key)
                               = cacheLast.entryBefore

\* an entry exactly 30 seconds old is reloaded and replaced
C26_Witness ==
    /\ cacheLast.op = "get_cached_vectorstore"
    /\ ~ cacheLast.force_refresh
    /\ cacheLast.entryBefore # NoEntry
    /\ cacheLast.at - cacheLast.entryBefore.timestamp = 30
    /\ cacheLast.loadCalled
    /\ cacheLast.raised = "none"
    /\ vectorstore_cache[cacheLast.key].timestamp = cacheLast.at

\* C29: a vectorstore returned by get_cached_vectorstore(vendor, collection)
\* was loaded by load_vectorstore with that same vendor and collection
\* argument.
C29_ReturnedStoreMatchesArguments ==
    (cacheLast.op = "get_cached_vectorstore" /\ cacheLast.raised = "none")
       => /\ loads[cacheLast.ret].vendor = cacheLast.vendor
          /\ loads[cacheLast.ret].collection = cacheLast.collection

\* ------------------------------------------------------------------------
\* Extraction method tags and terminal events
\* ------------------------------------------------------------------------
\* the text a page had when the OCR decision was taken
TextBeforeOcr ==
    IF lastPage.blocks # NoText THEN lastPage.blocks ELSE lastPage.direct

\* C27: every page unit the PDF processor emits is tagged with the method
\* that produced the text kept for the page (pymupdf_text iff the direct
\* text, pymupdf_blocks iff the block text, tesseract_ocr iff the OCR
\* text); OCR text replaces earlier text only when strictly longer after
\* trimming; block extraction is attempted only when the direct text is
\* empty, OCR only when the text so far has under 50 characters and OCR is
\* available.
C27_UnitTaggedByKeptMethod ==
    /\ \A i \in DOMAIN pages :
          /\ pages[i].method = "pymupdf_text" <=> pages[i].text.src = "direct"
          /\ pages[i].method = "pymupdf_blocks" <=> pages[i].text.src = "blocks"
          /\ pages[i].method = "tesseract_ocr" <=> pages[i].text.src = "ocr"
          /\ pages[i].text.slen > 0
    /\ lastPage.page > 0
          => /\ lastPage.blocks # NoText => lastPage.direct.slen = 0
             /\ lastPage.ocrCalled => (ocrAvailable /\ TextBeforeOcr.slen < 50)
             /\ lastPage.kept.src = "ocr"
                   => (lastPage.ocrCalled /\ lastPage.ocr.slen > TextBeforeOcr.slen)
             /\ lastPage.emitted
                   => pages[Len(pages)].text = lastPage.kept

\* a block-text unit followed by a unit whose short direct text OCR replaced
C27_Witness ==
    /\ Len(pages) = 2
    /\ pages[1].method = "pymupdf_blocks"
    /\ pages[2].method = "tesseract_ocr"
    /\ lastPage.page = 2
    /\ lastPage.direct.slen > 0
    /\ lastPage.kept = lastPage.ocr

\* C28: once process_document has returned or raised, each
\* processing-started event has been followed by exactly one terminal event
\* (complete or error).
C28_StartHasOneTerminalEvent ==
    pc \in {"returned", "raised"}
       => \A i \in DOMAIN events :
             events[i].kind = "start"
                => Cardinality({j \in DOMAIN events :
                                   j > i /\ events[j].kind \in {"complete", "error"}}) = 1

====
